---- MODULE Spec2Model ----
(***************************************************************************)
(* Controller / DeviceSession engine of lifxlan-go (pkg/controller).       *)
(*                                                                         *)
(* The model follows the goroutines of the package:                        *)
(*   - Controller.recvloop, the receive task, whose handler routes every   *)
(*     decoded frame (controller.go:325-356);                              *)
(*   - Controller.Close, called by the application and by recvloop itself  *)
(*     on a fatal receive error (controller.go:246-265);                   *)
(*   - per session, DeviceSession.run (session.go:632-665) and             *)
(*     DeviceSession.recvloop (session.go:667-714).                        *)
(* A close of an already closed channel panics; an unrecovered panic ends  *)
(* the process, so no action is enabled once `panicked` is set.            *)
(*                                                                         *)
(* A session object is identified by the serial of its device.  A serial   *)
(* gets a new session object only once both tasks of its previous one      *)
(* have returned: those tasks touch nothing but their own object, so this  *)
(* fixes an order of independent steps and leaves the reachable            *)
(* controller states as they are.                                          *)
(*                                                                         *)
(* Beside the engine the module follows, each with a specification of its  *)
(* own: the update functions of device.Device (device.go:215-290) and the  *)
(* copy DeviceSnapshot hands out; the payload switch of the session's      *)
(* recvloop; DeviceSession.Send and its sequence counter under two         *)
(* callers; and run with the timers of the preflight handshake.            *)
(***************************************************************************)
EXTENDS Integers, Sequences, FiniteSets, TLC

\* ---------------------------------------------------------------- bounds
\* frames accepted per session in the lifecycle and session specifications
MaxFrames == 2
\* frames accepted per session in the routing specification
MaxBurst == 12
\* requests counted per session
MaxSent == 1

\* longest tile chain a TileStateDeviceChain reports
MaxChain == 1
\* largest tile width and height
MaxDim == 2
\* most zones a MultiZoneExtendedStateMultiZone reports
MaxZoneCount == 2

\* messages of one call of DeviceSession.Send
MaxMsgs == 2
\* sequence numbers a session hands out
MaxStamps == 257

\* largest cfg.preflightHandshakeTimeout and cfg.preflightHandshakeWait, in ticks
MaxTimeout == 2
MaxWait == 2
\* cfg.highFrequencyStateRefreshPeriod, in ticks
HfPeriod == 1
\* requests of the refresh loop that are counted
MaxProbes == 1

\* calls of Controller.Send
MaxApiSends == 3

\* the largest width and height of a canvas of package matrix
MaxSide == 3

\* pixels painted on a canvas before it is flattened
MaxPaint == 2

\* the largest cycles argument of an effect, and the cycles followed of an endless one
MaxCycles == 2

\* the longest chain of a Matrix an effect runs on
MaxFxChain == 2

\* the longest palette, and the largest size argument, of an effect
MaxPalette == 2

\* the calls of send followed in one run of an effect
MaxAttempts == 12

\* the calls of the underlying send that fail in one run of an effect
MaxFails == 1

\* the longest list of colours handed to a message builder
MaxColors == 165

\* the largest start index handed to a message builder
MaxStart == 1

\* the largest absolute value of an integer handed to a parser of package matrix
MaxParseInt == 30

\* frames waiting in the inbox of the session whose device is followed
MaxInbox == 1
\* latest reading of the clock
MaxClock == 3

\* length of TileStateDeviceChain.TileDevices
TileDevicesLen == 16
\* length of TileState64.Colors
TileColorsLen == 64
\* length of MultiZoneExtendedStateMultiZone.Colors
ZoneColorsLen == 82

\* capacity of DeviceSession.inbound
defaultRecvBufferSize == 10

Serials == {"d1", "d2"}

\* payloads as the router distinguishes them: *packets.DeviceStateService with
\* Service = DEVICESERVICEUDP, DeviceStateService with another service, any other
\* payload
Kinds == {"StateServiceUDP", "StateServiceOther", "State"}
IsStateService(k) == k \in {"StateServiceUDP", "StateServiceOther"}

\* no frame is in the hands of the receive callback
NoFrame == <<>>

\* goroutines that call Controller.Close
AppCallers == {"app1", "app2"}
Callers == AppCallers \cup {"recvloop"}

VARIABLES
    sessions,     \* Controller.sessions: the serials that have an entry
    cur,          \* the frame client.Receive has read and not yet handled
    recvPc,       \* Controller.recvloop: "receive", "close", "exited"
    recvDone,     \* Controller.recvDone is closed
    deadlineSet,  \* SetConnDeadline(now) was called on the socket
    connClosed,   \* number of client.Close() calls
    onceOwner,    \* the caller running inside closeOnce.Do, "none" if none
    onceDone,     \* closeOnce has completed
    closePc,      \* per caller of Controller.Close, its position
    visited,      \* serials the range loop of Close has visited
    panicked,     \* a goroutine panicked: the process is gone
    owner,        \* per session object: "none" (not created), "controller", "app"
    done,         \* per session object, s.done is closed
    inbound,      \* per session object, the buffered channel s.inbound
    accepted,     \* per session object, number of frames pushed into inbound
    applied,      \* per session object, stamp of the last frame applied to the device
    runPc,        \* DeviceSession.run: "none","preflight","loop","onTimeout","terminate","exited"
    loopPc,       \* DeviceSession.recvloop: "none", "run", "exited"
    seen,         \* device.LastSeenAt is not the zero time
    expired,      \* more than cfg.deviceLivenessTimeout has passed since the later of
                  \* the session's creation and the last frame it processed
    sent,         \* requests sent by run
    timeouts      \* invocations of s.onTimeout

\* one DeviceSession.recvloop with the payloads of its frames and the clock
VARIABLES
    box,          \* s.inbound: the payloads waiting, oldest first
    now,          \* the clock time.Now() reads (0 is the zero time.Time)
    devLabel,     \* device.Label
    devPoweredOn, \* device.PoweredOn
    devLastSeenAt \* device.LastSeenAt

inboxVars == <<box, now, devLabel, devPoweredOn, devLastSeenAt>>

\* one device.Device, its matrix and multizone properties, and one copy of it
\* handed out by DeviceSnapshot
VARIABLES
    mWidth,        \* MatrixProperties.Width
    mHeight,       \* MatrixProperties.Height
    mNZones,       \* MatrixProperties.NZones
    mStatePackets, \* MatrixProperties.StatePackets
    mChainLength,  \* MatrixProperties.ChainLength
    chainZones,    \* MatrixProperties.ChainZones: one array of colours per tile
    chainCap,      \* cap(MatrixProperties.ChainZones)
    zones,         \* MultizoneProperties.Zones
    updated,       \* the result of the last call
    call,          \* the last call, with the packet of a state or zones frame
    snapTaken,     \* DeviceSnapshot has returned a copy
    snapProps,     \* the copy's Width, Height, NZones, StatePackets, ChainLength
    snapChain,     \* the copy's ChainZones as its holder reads them
    snapAlias,     \* tiles whose array is one object for the copy and the device
    snapShared,    \* the copy's ChainZones has the backing array of the device's
    snapZones,     \* the copy's Zones as its holder reads them
    snapZonesAlias \* the copy's Zones is the array of the device's

\* DeviceSession.Send and the sequence numbers it stamps
VARIABLES
    seq,          \* s.seq, an atomic.Uint32, as <<high 16 bits, low 16 bits>>
    stamps,       \* sequence numbers handed out so far
    lastAt,       \* per sequence number, which stamp handed it out last (0: none)
    sendPc,       \* per caller of Send: "idle", "loop", "send"
    sendN,        \* per caller, the number of messages of its call
    sendI,        \* per caller, the messages its loop is done with
    attempted,    \* per caller, the messages handed to s.sender.Send, in order
    sendFailed,   \* per caller, s.sender.Send returned an error in this call
    sendErr       \* per caller, the last call returned an error

sendVars == <<seq, stamps, lastAt, sendPc, sendN, sendI, attempted, sendFailed, sendErr>>

\* DeviceSession.run of one session: the preflight handshake and the start of
\* the refresh loop, with the timers it waits on (the clock is now)
VARIABLES
    pfPc,         \* run: "none", "send", "select", "check" (in preflightHandshake),
                  \* "tickers", "loop", "exited"
    required,     \* preflightHandshake: the requests still required, in order
    known,        \* the requests whose messageDoneFuncs entry holds on the device
    pfDeadline,   \* preflightHandshake: deadline
    pfWake,       \* when the time.After(wait) of the current round fires
    cfgWait,      \* cfg.preflightHandshakeWait
    hfAt,         \* when hfTicker fires next
    closed,       \* s.done is closed
    sawClose,     \* preflightHandshake has taken the case <-s.done
    probes        \* Sends of the refresh loop

preVars == <<pfPc, required, known, pfDeadline, pfWake, cfgWait, hfAt, closed, sawClose,
             probes>>

\* Controller.Send as the application calls it
VARIABLES
    apiSends,     \* calls of Controller.Send made so far
    apiLast,      \* the serial of the last call
    apiErr,       \* the last call returned an error
    wire          \* per serial, messages Controller.Send has put on the socket

apiVars == <<apiSends, apiLast, apiErr, wire>>

\* a canvas of package matrix
VARIABLES
    mx,           \* the Matrix: Width, Height and Colors[y][x], NoMatrix before New
    painted,      \* calls of SetPixel made so far
    flat          \* what FlattenColors returned, <<>> before its call

canvasVars == <<mx, painted, flat>>

\* an effect of package matrix that runs on the canvas
VARIABLES
    fx,           \* the call: effect, chain mode, cycles, colours, worm or snake size
    fxPc,         \* "idle", "running", "returned", or "spinning" in a loop that sends nothing
    fxPos,        \* the loop variables of repeatForCycles, of the mode switch and of the body
    fxErr,        \* the error the effect returned
    stopped,      \* the atomic.Bool that SendWithStop returns
    fxLog,        \* the messages handed to the underlying send, in order
    fxAttempts,   \* calls of the send function the effect has made
    fxSendErr     \* what the last call of the send function returned

fxVars == <<fx, fxPc, fxPos, fxErr, stopped, fxLog, fxAttempts, fxSendErr>>

\* the builders of package messages
VARIABLES
    built,        \* the last call of a builder, <<>> before the first
    msgs          \* the messages it returned

msgVars == <<built, msgs>>

\* the parsers of package matrix
VARIABLES
    parsed        \* the last call of a parser: its name, its argument and its result

parseVars == <<parsed>>

\* the locks of the controller and of a session, and the tasks that take them
VARIABLES
    mus,          \* per lock (c: Controller.mu, s: DeviceSession.mu): the task that holds
                  \* it for writing and the tasks that hold it for reading
    tpc,          \* per task, where it is
    access        \* the last access to the session map or to the device's mutable
                  \* fields: the task, the object, read or write, and the mode in which
                  \* the task held the object's lock at that moment

lockVars == <<mus, tpc, access>>

\* one preflight handshake, the device it fills in and the requests it sends
VARIABLES
    dv,           \* the fields of s.device the fulfilment predicates read
    round,        \* the number of rounds of requests sent so far
    lastSent,     \* the requests of the last round, in the order they were sent
    lastPoll,     \* the requests whose entry the last poll found not to hold
    found,        \* the requests some poll found fulfilled
    pfEnd         \* why preflightHandshake returned: "empty", "deadline", "done"

hsVars == <<dv, round, lastSent, lastPoll, found, pfEnd>>

\* the liveness watchdog of one session
VARIABLES
    livPc,        \* run: "none", "preflight", "loop", "exited"
    livAt,        \* when the liveness ticker fires next
    livTimeout,   \* cfg.deviceLivenessTimeout
    createdAt,    \* when NewDeviceSession made the session
    silence       \* at the call of s.onTimeout: the time since the later of the
                  \* creation and the last frame recvloop processed (-1: no call)

livVars == <<livPc, livAt, livTimeout, createdAt, silence>>

\* the high frequency probe set of a matrix device
VARIABLES
    probeSet      \* the TileGet64 requests HighFreqStateMessages returned last

probeVars == <<probeSet>>

\* the parts that were added after the parsers
lateVars == <<lockVars, hsVars, livVars, probeVars>>

matrixVars == <<mWidth, mHeight, mNZones, mStatePackets, mChainLength, chainZones,
                chainCap>>
snapVars == <<snapTaken, snapProps, snapChain, snapAlias, snapShared, snapZones,
              snapZonesAlias>>
devVars == <<matrixVars, zones, updated, call, snapVars>>

\* the parts that were added to the model last
extraVars == <<apiVars, canvasVars, fxVars, msgVars, parseVars, lateVars>>

auxVars == <<inboxVars, devVars, sendVars, preVars, extraVars>>

coreVarsButPanicked ==
    <<sessions, cur, recvPc, recvDone, deadlineSet, connClosed, onceOwner, onceDone,
      closePc, visited, owner, done, inbound, accepted, applied, runPc, loopPc,
      seen, expired, sent, timeouts, extraVars>>

coreVars == <<coreVarsButPanicked, panicked>>

engineVars == <<coreVars, sendVars, preVars>>

engineVarsButPanicked == <<coreVarsButPanicked, sendVars, preVars>>

vars == <<engineVars, auxVars>>

ctrlVars == <<sessions, cur, recvPc, recvDone, deadlineSet, connClosed, onceOwner,
              onceDone, closePc, visited>>
sessVars == <<owner, done, inbound, accepted, applied, runPc, loopPc, seen,
              expired, sent, timeouts>>

\* ------------------------------------------------------------------ Init
\* controller.go:209-244: New() - empty map, open recvDone, recvloop started
InitController ==
    /\ sessions = {}
    /\ cur = NoFrame
    /\ recvPc = "receive"
    /\ recvDone = FALSE
    /\ deadlineSet = FALSE
    /\ connClosed = 0
    /\ onceOwner = "none"
    /\ onceDone = FALSE
    /\ closePc = [c \in Callers |-> "idle"]
    /\ visited = {}
    /\ panicked = FALSE

\* device.go:190-192 NewDevice: every mutable field has its zero value; the inbox
\* is empty (session.go:588)
InitInbox ==
    /\ box = <<>>
    /\ now = 1
    /\ devLabel = 0
    /\ devPoweredOn = FALSE
    /\ devLastSeenAt = 0

\* no call was made yet
NoCall == <<>>

\* a nil slice, and the element of a slice of slices that was cleared
Nil == <<>>

\* device.go:190-192 NewDevice: zero MatrixProperties and MultizoneProperties; no
\* copy was handed out
InitDevice ==
    /\ mWidth = 0 /\ mHeight = 0 /\ mNZones = 0 /\ mStatePackets = 0
    /\ mChainLength = 0
    /\ chainZones = Nil
    /\ chainCap = 0
    /\ zones = Nil
    /\ updated = FALSE
    /\ call = NoCall
    /\ snapTaken = FALSE
    /\ snapProps = <<0, 0, 0, 0, 0>>
    /\ snapChain = Nil
    /\ snapAlias = {}
    /\ snapShared = FALSE
    /\ snapZones = Nil
    /\ snapZonesAlias = FALSE

\* the goroutines that call DeviceSession.Send: the application, through
\* Controller.Send, and the session's own run
Senders == {"app", "run"}

\* no Send is running and no sequence number was handed out since the counter
\* stood at c0
InitSendAt(c0) ==
    /\ seq = c0
    /\ stamps = 0
    /\ lastAt = [v \in 0..255 |-> 0]
    /\ sendPc = [c \in Senders |-> "idle"]
    /\ sendN = [c \in Senders |-> 0]
    /\ sendI = [c \in Senders |-> 0]
    /\ attempted = [c \in Senders |-> <<>>]
    /\ sendFailed = [c \in Senders |-> FALSE]
    /\ sendErr = [c \in Senders |-> FALSE]

\* session.go:583-597: the counter of a new session is zero
InitSend == InitSendAt(<<0, 0>>)

\* session.go:755-766 requiredStateMessages, three of the eight: two requests
\* with an entry in messageDoneFuncs and LightGet, which has none
RequiredStateMessages == <<"GetLabel", "LightGet", "GetVersion">>

\* session.go:769-779: the requests messageDoneFuncs has an entry for
MessageDoneFuncs == {"GetLabel", "GetVersion"}

\* run at the start of preflightHandshake (session.go:721-722) with the given
\* cfg.preflightHandshakeTimeout and cfg.preflightHandshakeWait; the clock reads 1
InitPreflightAt(timeout, wait) ==
    /\ pfPc = "send"
    /\ required = RequiredStateMessages
    /\ known = {}
    /\ pfDeadline = 1 + timeout
    /\ pfWake = 0
    /\ cfgWait = wait
    /\ hfAt = 0
    /\ closed = FALSE
    /\ sawClose = FALSE
    /\ probes = 0

\* no run is followed
InitPreflight ==
    /\ pfPc = "none"
    /\ required = <<>>
    /\ known = {}
    /\ pfDeadline = 0
    /\ pfWake = 0
    /\ cfgWait = 0
    /\ hfAt = 0
    /\ closed = FALSE
    /\ sawClose = FALSE
    /\ probes = 0

\* controller.go:209-244: Controller.Send was not called yet
InitApi ==
    /\ apiSends = 0
    /\ apiLast = "none"
    /\ apiErr = FALSE
    /\ wire = [i \in Serials |-> 0]

\* matrix.go:17-23: the zero Matrix, which stands for the one not made yet
NoMatrix == [Width |-> 0, Height |-> 0, Colors |-> <<>>, ChainLength |-> 0]

\* matrix.go:25-39: no Matrix was made yet
InitCanvas ==
    /\ mx = NoMatrix
    /\ painted = 0
    /\ flat = <<>>

\* part_010:21-28: the chain modes
ChainModeNone == "None"

ChainModeSequential == "Sequential"

ChainModeSynced == "Synced"

\* part_013:13-19: NewPixelCache(size), no pixel set
NewPixelCache(size) == [k \in 1..size |-> <<>>]

\* the loop variables before the first body: cycle of repeatForCycles, ti of the mode
\* switch, and of the body: the loop it is in, its index i, y, reversed, pixelsSet,
\* the rockets' colour and the pixel cache
StartPos ==
    [cycle |-> 0, ti |-> 0, loop |-> "main", i |-> 0, y |-> 0, reversed |-> FALSE,
     pixelsSet |-> 0, color |-> 0, cache |-> <<>>]

NoEffect == [kind |-> "none", mode |-> ChainModeNone, cycles |-> 0, colors |-> <<>>, size |-> 0]

\* part_010:76-78: no effect runs, and stopped is the new atomic.Bool
InitFx ==
    /\ fx = NoEffect
    /\ fxPc = "idle"
    /\ fxPos = StartPos
    /\ fxErr = "nil"
    /\ stopped = FALSE
    /\ fxLog = <<>>
    /\ fxAttempts = 0
    /\ fxSendErr = "nil"

\* no builder of package messages was called yet
InitMsgs ==
    /\ built = <<>>
    /\ msgs = <<>>

\* no parser of package matrix was called yet
InitParse == parsed = <<>>

\* the tasks that take the locks
LockTasks == {"router", "recv", "run", "app", "closer"}

\* a sync.RWMutex nobody holds
FreeMutex == [w |-> "none", r |-> {}]

NoAccess == [task |-> "none", obj |-> "none", op |-> "none", site |-> "none", mode |-> "none"]

\* controller.go:209-244, session.go:583-597: both locks are free; the router and
\* the application run, no session was made yet
InitLocks ==
    /\ mus = [l \in {"c", "s"} |-> FreeMutex]
    /\ tpc = [t \in LockTasks |->
                 IF t \in {"recv", "run"} THEN "none"
                 ELSE IF t = "router" THEN "receive" ELSE "idle"]
    /\ access = NoAccess

\* device.go:190-192 NewDevice: every mutable field has its zero value, and
\* LightTypeSingleZone is the zero lightType (device.go:46-53)
LightTypeSingleZone == "SingleZone"

LightTypeMatrix == "Matrix"

NewDevice ==
    [Label |-> "", ProductID |-> 0, LightType |-> LightTypeSingleZone,
     FirmwareVersion |-> "", Location |-> "", Group |-> "", WifiRSSI |-> 0,
     ChainLength |-> 0]

\* session.go:583-597: no request was sent yet
InitHandshake ==
    /\ dv = NewDevice
    /\ round = 0
    /\ lastSent = <<>>
    /\ lastPoll = {}
    /\ found = {}
    /\ pfEnd = "none"

\* no watchdog is followed
InitWatchdog ==
    /\ livPc = "none"
    /\ livAt = 0
    /\ livTimeout = 0
    /\ createdAt = 0
    /\ silence = -1

\* HighFreqStateMessages was not called yet
InitProbe == probeSet = <<>>

InitLate == InitLocks /\ InitHandshake /\ InitWatchdog /\ InitProbe

\* session.go:721-722: preflightHandshake starts with the given timeout and wait,
\* the full list of requests, and the clock at 1
InitHandshakeAt(timeout, wait) ==
    /\ pfPc = "send"
    /\ required = <<"DeviceGetLabel", "DeviceGetVersion", "LightGet", "DeviceGetHostFirmware",
                    "DeviceGetLocation", "DeviceGetGroup", "DeviceGetWifiInfo",
                    "TileGetDeviceChain">>
    /\ known = {}
    /\ pfDeadline = 1 + timeout
    /\ pfWake = 0
    /\ cfgWait = wait
    /\ hfAt = 0
    /\ closed = FALSE
    /\ sawClose = FALSE
    /\ probes = 0

InitExtra == InitApi /\ InitCanvas /\ InitFx /\ InitMsgs /\ InitParse /\ InitLate

\* the parts of the program a specification leaves at rest
InitAux == InitInbox /\ InitDevice /\ InitSend /\ InitPreflight /\ InitExtra

\* controller.go:209-244: a new controller has no session
InitCore ==
    /\ InitController
    /\ owner = [i \in Serials |-> "none"]
    /\ done = [i \in Serials |-> FALSE]
    /\ inbound = [i \in Serials |-> <<>>]
    /\ accepted = [i \in Serials |-> 0]
    /\ applied = [i \in Serials |-> 0]
    /\ runPc = [i \in Serials |-> "none"]
    /\ loopPc = [i \in Serials |-> "none"]
    /\ seen = [i \in Serials |-> FALSE]
    /\ expired = [i \in Serials |-> FALSE]
    /\ sent = [i \in Serials |-> 0]
    /\ timeouts = [i \in Serials |-> 0]

Init == InitAux /\ InitCore

\* ------------------------------------------------- DeviceSession (object)
\* no task of an earlier session object of the serial is still running
ObjectFree(i) == runPc[i] \in {"none", "exited"} /\ loopPc[i] \in {"none", "exited"}

\* session.go:583-597 NewDeviceSession: fresh channels, zero LastSeenAt, both
\* goroutines started
NewDeviceSession(i, who) ==
    /\ owner' = [owner EXCEPT ![i] = who]
    /\ done' = [done EXCEPT ![i] = FALSE]
    /\ inbound' = [inbound EXCEPT ![i] = <<>>]
    /\ accepted' = [accepted EXCEPT ![i] = 0]
    /\ applied' = [applied EXCEPT ![i] = 0]
    /\ runPc' = [runPc EXCEPT ![i] = "preflight"]
    /\ loopPc' = [loopPc EXCEPT ![i] = "run"]
    /\ seen' = [seen EXCEPT ![i] = FALSE]
    /\ expired' = [expired EXCEPT ![i] = FALSE]
    /\ sent' = [sent EXCEPT ![i] = 0]
    /\ timeouts' = [timeouts EXCEPT ![i] = 0]

\* session.go:600-602 DeviceSession.Close: close(s.done); closing a closed channel
\* panics
DeviceSession_Close(i) ==
    IF done[i]
    THEN panicked' = TRUE /\ done' = done
    ELSE panicked' = panicked /\ done' = [done EXCEPT ![i] = TRUE]

\* ---------------------------------------------------- Controller.recvloop
\* controller.go:336-337: a session is added for a DeviceStateService payload whose
\* service is UDP, when the lookup found no session
ShouldAddSession_AnyService(hasSession, kind) == ~hasSession /\ IsStateService(kind)

ShouldAddSession(hasSession, kind) == ~hasSession /\ kind = "StateServiceUDP"

\* controller.go:342: every payload that is not a DeviceStateService is offered to
\* the session that was found
ShouldOffer(hasSession, kind) == ~IsStateService(kind) /\ hasSession

\* controller.go:289-300 addSession: NewDeviceSession, then the map entry under the
\* write lock
addSession(serial) ==
    /\ NewDeviceSession(serial, "controller")
    /\ sessions' = sessions \cup {serial}

\* controller.go:343-350: select { case session.inbound <- msg: default: } - the
\* frame is queued when the channel has room and dropped otherwise
Offer_Blocking(i) ==
    /\ Len(inbound[i]) < defaultRecvBufferSize
    /\ inbound' = [inbound EXCEPT ![i] = Append(@, accepted[i] + 1)]
    /\ accepted' = [accepted EXCEPT ![i] = @ + 1]

Offer(i) ==
    IF Len(inbound[i]) < defaultRecvBufferSize
    THEN /\ inbound' = [inbound EXCEPT ![i] = Append(@, accepted[i] + 1)]
         /\ accepted' = [accepted EXCEPT ![i] = @ + 1]
    ELSE UNCHANGED <<inbound, accepted>>

\* controller.go:329-351, the callback recvloop gives client.Receive: it looks the
\* session of the frame's serial up under the read lock and then adds a session,
\* offers the frame to the session it found, or discards the frame
recvHandler(s, k) ==
    IF ShouldAddSession(s \in sessions, k)
    THEN addSession(s)
    ELSE IF ShouldOffer(s \in sessions, k)
         THEN /\ Offer(s)
              /\ UNCHANGED <<sessions, owner, done, applied, runPc, loopPc, seen,
                             expired, sent, timeouts>>
         ELSE UNCHANGED <<sessions, sessVars>>

\* what the model lets the socket deliver: a frame that starts a session when the
\* serial's earlier session object is gone, a frame for an inbox while the frame
\* budget lasts
Deliverable(limit, s, k) ==
    /\ ShouldAddSession(s \in sessions, k) => ObjectFree(s)
    /\ ShouldOffer(s \in sessions, k) => accepted[s] < limit

\* client.go:107-122 with controller.go:329-351: one iteration of the loop of
\* client.Receive - a frame is read and decoded and the callback is run on it
recvloop_Handle(limit, s, k) ==
    /\ ~panicked
    /\ recvPc = "receive"
    /\ cur = NoFrame
    /\ Deliverable(limit, s, k)
    /\ recvHandler(s, k)
    /\ UNCHANGED <<cur, recvPc, recvDone, deadlineSet, connClosed, onceOwner,
                   onceDone, closePc, visited, panicked>>
    /\ UNCHANGED auxVars

\* the same iteration in its two steps.  client.go:107-118: a frame is read and
\* decoded ...
Receive_Read(limit, s, k) ==
    /\ ~panicked
    /\ recvPc = "receive"
    /\ cur = NoFrame
    /\ Deliverable(limit, s, k)
    /\ cur' = <<s, k>>
    /\ UNCHANGED <<sessions, recvPc, recvDone, deadlineSet, connClosed, onceOwner,
                   onceDone, closePc, visited, panicked>>
    /\ UNCHANGED sessVars
    /\ UNCHANGED auxVars

\* ... client.go:119-121: and the callback is run on it
Receive_Call ==
    /\ ~panicked
    /\ recvPc = "receive"
    /\ cur # NoFrame
    /\ recvHandler(cur[1], cur[2])
    /\ cur' = NoFrame
    /\ UNCHANGED <<recvPc, recvDone, deadlineSet, connClosed, onceOwner,
                   onceDone, closePc, visited, panicked>>
    /\ UNCHANGED auxVars

\* client.go:108-113 with controller.go:327: the read deadline set by Close makes
\* ReadFromUDP fail with a timeout, Receive returns nil, recvloop returns and its
\* deferred close(c.recvDone) runs.  The same return follows a Close call of
\* recvloop itself (controller.go:354) once that call has returned.
recvloop_Return ==
    /\ ~panicked
    /\ (recvPc = "receive" /\ deadlineSet)
          \/ (recvPc = "close" /\ closePc["recvloop"] = "returned")
    /\ recvPc' = "exited"
    /\ recvDone' = TRUE
    /\ UNCHANGED <<sessions, cur, deadlineSet, connClosed, onceOwner, onceDone,
                   closePc, visited, panicked>>
    /\ UNCHANGED sessVars
    /\ UNCHANGED auxVars

\* client.go:108-113 with controller.go:352-355: ReadFromUDP fails with an error
\* that is no timeout, Receive returns it and recvloop calls c.Close()
recvloop_Error ==
    /\ ~panicked
    /\ recvPc = "receive"
    /\ recvPc' = "close"
    /\ closePc' = [closePc EXCEPT !["recvloop"] = "once"]
    /\ UNCHANGED <<sessions, cur, recvDone, deadlineSet, connClosed, onceOwner,
                   onceDone, visited, panicked>>
    /\ UNCHANGED sessVars
    /\ UNCHANGED auxVars

\* ------------------------------------------------------- Controller.Close
\* the application calls Controller.Close (the two callers are interchangeable:
\* app2 stands for the one that calls second)
Close_Call(c) ==
    /\ ~panicked
    /\ c \in AppCallers
    /\ closePc[c] = "idle"
    /\ c = "app2" => closePc["app1"] # "idle"
    /\ closePc' = [closePc EXCEPT ![c] = "once"]
    /\ UNCHANGED <<sessions, cur, recvPc, recvDone, deadlineSet, connClosed,
                   onceOwner, onceDone, visited, panicked>>
    /\ UNCHANGED sessVars
    /\ UNCHANGED auxVars

\* controller.go:250: sync.Once lets exactly one caller run the function; the
\* others wait until it has completed and then return
OnceFree_NoGuard == onceOwner = "none"

OnceFree == onceOwner = "none" /\ ~onceDone

\* controller.go:250-251: closeOnce.Do entered; the caller that runs the function
\* sets the socket deadline to now
Close_Do(c) ==
    /\ ~panicked
    /\ closePc[c] = "once"
    /\ IF OnceFree
       THEN /\ onceOwner' = c
            /\ deadlineSet' = TRUE
            /\ closePc' = [closePc EXCEPT ![c] = "waitRecv"]
       ELSE /\ onceDone
            /\ closePc' = [closePc EXCEPT ![c] = "returned"]
            /\ UNCHANGED <<onceOwner, deadlineSet>>
    /\ UNCHANGED <<sessions, cur, recvPc, recvDone, connClosed, onceDone, visited,
                   panicked>>
    /\ UNCHANGED sessVars
    /\ UNCHANGED auxVars

\* controller.go:252: <-c.recvDone
RecvExited_NoWait == TRUE

RecvExited == recvDone

\* controller.go:252-253: after the receive task has exited, c.client.Close()
Close_AfterRecv(c) ==
    /\ ~panicked
    /\ closePc[c] = "waitRecv"
    /\ RecvExited
    /\ connClosed' = connClosed + 1
    /\ closePc' = [closePc EXCEPT ![c] = "sessions"]
    /\ visited' = {}
    /\ UNCHANGED <<sessions, cur, recvPc, recvDone, deadlineSet, onceOwner, onceDone,
                   panicked>>
    /\ UNCHANGED sessVars
    /\ UNCHANGED auxVars

\* controller.go:255-259: one iteration of the range over c.sessions
Close_Session(c, s) ==
    /\ ~panicked
    /\ closePc[c] = "sessions"
    /\ s \in sessions
    /\ s \notin visited
    /\ DeviceSession_Close(s)
    /\ visited' = visited \cup {s}
    /\ UNCHANGED <<sessions, cur, recvPc, recvDone, deadlineSet, connClosed,
                   onceOwner, onceDone, closePc>>
    /\ UNCHANGED <<owner, inbound, accepted, applied, runPc, loopPc, seen,
                   expired, sent, timeouts>>
    /\ UNCHANGED auxVars

\* controller.go:260: clear(c.sessions) once the range is over
Close_Clear(c) ==
    /\ ~panicked
    /\ closePc[c] = "sessions"
    /\ sessions \subseteq visited
    /\ sessions' = {}
    /\ visited' = {}
    /\ closePc' = [closePc EXCEPT ![c] = "wait"]
    /\ UNCHANGED <<cur, recvPc, recvDone, deadlineSet, connClosed, onceOwner,
                   onceDone, panicked>>
    /\ UNCHANGED sessVars
    /\ UNCHANGED auxVars

\* the wait group of the controller: run tasks of its sessions that have not
\* returned
WgCount == Cardinality({i \in Serials : owner[i] = "controller" /\ runPc[i] # "exited"})

\* the function of closeOnce.Do returns, closeOnce completes, Close returns
Close_Finish(c) ==
    /\ onceDone' = TRUE
    /\ onceOwner' = "none"
    /\ closePc' = [closePc EXCEPT ![c] = "returned"]
    /\ UNCHANGED <<sessions, cur, recvPc, recvDone, deadlineSet, connClosed, visited,
                   panicked>>
    /\ UNCHANGED sessVars
    /\ UNCHANGED auxVars

\* Close waits for the wait group to drain ...
Close_WaitDrained(c) ==
    /\ ~panicked
    /\ closePc[c] = "wait"
    /\ WgCount = 0
    /\ Close_Finish(c)

\* ... or for sessions_termination_timeout to elapse
Close_WaitTimeout(c) ==
    /\ ~panicked
    /\ closePc[c] = "wait"
    /\ WgCount > 0
    /\ Close_Finish(c)

\* ----------------------------------------------- Controller.Send, GetDevices
\* controller.go:311-322 GetDevices: one snapshot per entry of the map - the
\* serials the list holds
GetDevices == sessions

\* the test of Controller.Send with the map left out of it
Send_AnySerial(serial) == TRUE

\* controller.go:302-309 Controller.Send: the message goes to the session of the
\* serial when the map has one and nowhere otherwise
Send_HasSession(serial) == serial \in sessions

\* controller.go:302-309 Controller.Send(serial, msg): with a session, the result
\* is that of its Send, which puts the message on the socket and fails when the
\* sender fails (session.go:604-614); without one, nil
Controller_Send(serial, fails) ==
    /\ ~panicked
    /\ apiSends < MaxApiSends
    /\ apiSends' = apiSends + 1
    /\ apiLast' = serial
    /\ IF Send_HasSession(serial)
       THEN /\ wire' = [wire EXCEPT ![serial] = @ + 1]
            /\ apiErr' = fails
       ELSE /\ wire' = wire
            /\ apiErr' = FALSE
    /\ UNCHANGED <<ctrlVars, sessVars, panicked, inboxVars, devVars, sendVars, preVars,
                   canvasVars, fxVars, msgVars, parseVars, lateVars>>

\* ------------------------------------------------------ DeviceSession.run
\* session.go:720-726 preflightHandshake: one round sends the required requests
run_PreflightSend(i) ==
    /\ ~panicked
    /\ runPc[i] = "preflight"
    /\ sent[i] < MaxSent
    /\ sent' = [sent EXCEPT ![i] = @ + 1]
    /\ UNCHANGED ctrlVars
    /\ UNCHANGED <<panicked, owner, done, inbound, accepted, applied, runPc,
                   loopPc, seen, expired, timeouts>>
    /\ UNCHANGED auxVars

\* session.go:724-751: the handshake ends - the required set is empty, the
\* deadline has passed or s.done is closed - and run goes on to its tickers
\* (session.go:637-640)
run_PreflightEnd(i) ==
    /\ ~panicked
    /\ runPc[i] = "preflight"
    /\ runPc' = [runPc EXCEPT ![i] = "loop"]
    /\ UNCHANGED ctrlVars
    /\ UNCHANGED <<panicked, owner, done, inbound, accepted, applied, loopPc,
                   seen, expired, sent, timeouts>>
    /\ UNCHANGED auxVars

\* session.go:644-645: case <-s.done: return, with the deferred wgDone()
run_Done(i) ==
    /\ ~panicked
    /\ runPc[i] = "loop"
    /\ done[i]
    /\ runPc' = [runPc EXCEPT ![i] = "exited"]
    /\ UNCHANGED ctrlVars
    /\ UNCHANGED <<panicked, owner, done, inbound, accepted, applied, loopPc,
                   seen, expired, sent, timeouts>>
    /\ UNCHANGED auxVars

\* session.go:646-651: the high or the low frequency ticker fires and the probe
\* set is sent
run_Probe(i) ==
    /\ ~panicked
    /\ runPc[i] = "loop"
    /\ sent[i] < MaxSent
    /\ sent' = [sent EXCEPT ![i] = @ + 1]
    /\ UNCHANGED ctrlVars
    /\ UNCHANGED <<panicked, owner, done, inbound, accepted, applied, runPc,
                   loopPc, seen, expired, timeouts>>
    /\ UNCHANGED auxVars

\* session.go:653-657: time.Since(last) > s.cfg.deviceLivenessTimeout, where last
\* is s.device.LastSeenAt; time.Since of the zero time exceeds every timeout
LivenessExpired(i) == ~seen[i] \/ expired[i]

\* session.go:660-661: s.onTimeout(...) is called and run returns after it
AfterTimeout_KeepLooping == "loop"

AfterTimeout == "onTimeout"

\* session.go:652-662: the liveness ticker fires; an expired device makes run call
\* s.onTimeout
run_Liveness(i) ==
    /\ ~panicked
    /\ runPc[i] = "loop"
    /\ LivenessExpired(i)
    /\ timeouts[i] < 2
    /\ timeouts' = [timeouts EXCEPT ![i] = @ + 1]
    /\ runPc' = [runPc EXCEPT ![i] = AfterTimeout]
    /\ UNCHANGED ctrlVars
    /\ UNCHANGED <<panicked, owner, done, inbound, accepted, applied, loopPc,
                   seen, expired, sent>>
    /\ UNCHANGED auxVars

\* session_test.go:125: the callback an application gave returns, run returns
onTimeout_Callback(i) ==
    /\ ~panicked
    /\ runPc[i] = "onTimeout"
    /\ owner[i] = "app"
    /\ runPc' = [runPc EXCEPT ![i] = "exited"]
    /\ UNCHANGED ctrlVars
    /\ UNCHANGED <<panicked, owner, done, inbound, accepted, applied, loopPc,
                   seen, expired, sent, timeouts>>
    /\ UNCHANGED auxVars

\* terminate_session deletes the entry of the serial from the map
RemoveEntry_Keep(serial) == sessions

RemoveEntry(serial) == sessions \ {serial}

\* terminate_session, the callback the controller gives its sessions: under the
\* write lock the entry of the serial is removed ...
terminateSession_Remove(i) ==
    /\ ~panicked
    /\ runPc[i] = "onTimeout"
    /\ owner[i] = "controller"
    /\ sessions' = RemoveEntry(i)
    /\ runPc' = [runPc EXCEPT ![i] = IF i \in sessions THEN "terminate" ELSE "exited"]
    /\ UNCHANGED <<cur, recvPc, recvDone, deadlineSet, connClosed, onceOwner,
                   onceDone, closePc, visited, panicked>>
    /\ UNCHANGED <<owner, done, inbound, accepted, applied, loopPc, seen,
                   expired, sent, timeouts>>
    /\ UNCHANGED auxVars

\* ... and the session that was removed is closed outside the lock; run returns
terminateSession_Close(i) ==
    /\ ~panicked
    /\ runPc[i] = "terminate"
    /\ DeviceSession_Close(i)
    /\ runPc' = [runPc EXCEPT ![i] = "exited"]
    /\ UNCHANGED ctrlVars
    /\ UNCHANGED <<owner, inbound, accepted, applied, loopPc, seen, expired,
                   sent, timeouts>>
    /\ UNCHANGED auxVars

\* ------------------------------------------------- DeviceSession.recvloop
\* session.go:671: msg := <-s.inbound takes the oldest frame of the channel
NextFrame_Newest(q) == q[Len(q)]

NextFrame(q) == Head(q)

\* session.go:671: the frame received leaves the channel
Remaining(q) == Tail(q)

\* session.go:671-708: one frame is taken and applied under the write lock, and
\* LastSeenAt is set
sessionRecvloop_Process(i) ==
    /\ ~panicked
    /\ loopPc[i] = "run"
    /\ inbound[i] # <<>>
    /\ applied' = [applied EXCEPT ![i] = NextFrame(inbound[i])]
    /\ inbound' = [inbound EXCEPT ![i] = Remaining(@)]
    /\ seen' = [seen EXCEPT ![i] = TRUE]
    /\ expired' = [expired EXCEPT ![i] = FALSE]
    /\ UNCHANGED ctrlVars
    /\ UNCHANGED <<panicked, owner, done, accepted, runPc, loopPc, sent,
                   timeouts>>
    /\ UNCHANGED auxVars

\* session.go:709-711: case <-s.done: return
sessionRecvloop_DoneNeverTaken(i) ==
    /\ ~panicked
    /\ loopPc[i] = "run"
    /\ done[i]
    /\ UNCHANGED vars

sessionRecvloop_Done(i) ==
    /\ ~panicked
    /\ loopPc[i] = "run"
    /\ done[i]
    /\ loopPc' = [loopPc EXCEPT ![i] = "exited"]
    /\ UNCHANGED ctrlVars
    /\ UNCHANGED <<panicked, owner, done, inbound, accepted, applied, runPc,
                   seen, expired, sent, timeouts>>
    /\ UNCHANGED auxVars

\* ------------------------------------------------------------ environment
\* time passes: a session whose run task is alive has now been silent for more
\* than cfg.deviceLivenessTimeout
Elapse(i) ==
    /\ ~panicked
    /\ runPc[i] \in {"preflight", "loop"}
    /\ ~expired[i]
    /\ expired' = [expired EXCEPT ![i] = TRUE]
    /\ UNCHANGED ctrlVars
    /\ UNCHANGED <<panicked, owner, done, inbound, accepted, applied, runPc,
                   loopPc, seen, sent, timeouts>>
    /\ UNCHANGED auxVars

\* session_test.go:144: the owner of a session sends a frame into s.inbound (a
\* blocking send)
App_Inject(i) ==
    /\ ~panicked
    /\ owner[i] = "app"
    /\ accepted[i] < MaxFrames
    /\ Len(inbound[i]) < defaultRecvBufferSize
    /\ inbound' = [inbound EXCEPT ![i] = Append(@, accepted[i] + 1)]
    /\ accepted' = [accepted EXCEPT ![i] = @ + 1]
    /\ UNCHANGED ctrlVars
    /\ UNCHANGED <<panicked, owner, done, applied, runPc, loopPc, seen,
                   expired, sent, timeouts>>
    /\ UNCHANGED auxVars

\* session_test.go:129: the owner of a session calls DeviceSession.Close
App_SessionClose(i) ==
    /\ ~panicked
    /\ owner[i] = "app"
    /\ DeviceSession_Close(i)
    /\ UNCHANGED ctrlVars
    /\ UNCHANGED <<owner, inbound, accepted, applied, runPc, loopPc, seen,
                   expired, sent, timeouts>>
    /\ UNCHANGED auxVars

\* ---------------------------------------------------------- device.Device
Min(a, b) == IF a < b THEN a ELSE b

Max(a, b) == IF a > b THEN a ELSE b

\* Go's integer division, which truncates toward zero
GoDiv(a, b) == IF a >= 0 THEN a \div b ELSE -((-a) \div b)

\* make([]packets.LightHsbk, n): n zero colours
Zeros(n) == [j \in 1..n |-> 0]

\* the packets of the model.  TileStateDeviceChain: StartIndex, TileDevicesCount and
\* the Width and Height of TileDevices[StartIndex]
ChainPackets ==
    [StartIndex : {0, TileDevicesLen}, Count : 0..MaxChain, Width : 0..MaxDim,
     Height : 0..MaxDim]

\* TileState64: TileIndex, Rect.Y and Colors, 64 times the colour Color
StatePackets ==
    [TileIndex : 0..MaxChain, Y : {0, 1, 128}, Color : {1}]

\* the chain frames of tiles of one row
RowChainPackets == {p \in ChainPackets : p.StartIndex = 0 /\ p.Height = 1}

\* the state frames that are written from the first zone of a tile
RowStatePackets == {p \in StatePackets : p.Y = 0}

\* MultiZoneExtendedStateMultiZone: Count, Index, ColorsCount and Colors, whose
\* first ColorsCount entries are the colour Color and whose others are zero
ZonePackets ==
    [Count : 0..MaxZoneCount, Index : 0..MaxZoneCount, ColorsCount : 0..MaxZoneCount,
     Color : {1, 2}]

\* the frames of a strip of one zone that report the colour of that zone
FirstZonePackets == {p \in ZonePackets : p.Count = 1 /\ p.Index = 0 /\ p.ColorsCount = 1}

\* p.Colors[j] of a MultiZoneExtendedStateMultiZone, j from 0
ZoneColor(p, j) == IF j < p.ColorsCount THEN p.Color ELSE 0

\* copy(dst[start:], colours): the entries of dst from start (counted from 0) take
\* the colours, as many as fit and as there are
CopyAt(dst, start, colours) ==
    [j \in 1..Len(dst) |->
        IF j > start /\ j <= start + Len(colours) THEN colours[j - start] ELSE dst[j]]

\* device.go:255: zoneIndex := p.Rect.Y * uint8(d.MatrixProperties.Width), a uint8
\* product
ZoneIndex(y, width) == (y * (width % 256)) % 256

\* device.go:260-268: some entry of the tile from zoneIndex on, of the first 64,
\* differs from the colour the packet has for it
StateDiffers(tile, zoneIndex, p) ==
    \E i \in 0..(TileColorsLen - 1) :
        zoneIndex + i < Len(tile) /\ tile[zoneIndex + i + 1] # p.Color

\* device.go:273: copy(ChainZones[TileIndex][zoneIndex:], p.Colors[:])
StateCopied(tile, zoneIndex, p) ==
    CopyAt(tile, zoneIndex, [j \in 1..TileColorsLen |-> p.Color])

\* device.go:232-245: the arrays of ChainZones after the resize to l tiles of nz
\* zones - all fresh when there were none, fresh ones appended or the tail
\* deleted otherwise, the arrays that stay being left as they are
Resized(cz, l, nz) ==
    IF Len(cz) = 0 THEN [k \in 1..l |-> Zeros(nz)]
    ELSE IF Len(cz) < l THEN cz \o [k \in 1..(l - Len(cz)) |-> Zeros(nz)]
    ELSE SubSeq(cz, 1, l)

\* the capacities append can leave ChainZones with when it grows it to l elements:
\* the one it has when they fit, otherwise that of a new backing array
GrownCaps(cap, l) == IF l <= cap THEN {cap} ELSE l..Max(l, MaxChain)

\* what the holder of the copy reads in its ChainZones after the resize of the
\* device's.  While the two share a backing array, an element appended in place
\* shows in the copy where the copy is long enough, and slices.Delete clears the
\* elements it drops
SnapAfterResize(l, nz) ==
    LET cl == Len(chainZones)
        n == Len(snapChain)
    IN  IF ~snapShared \/ cl = 0 THEN snapChain
        ELSE IF cl < l
             THEN [k \in 1..n |->
                     IF k > cl /\ k <= Min(l, chainCap) THEN Zeros(nz) ELSE snapChain[k]]
             ELSE [k \in 1..n |-> IF k > l /\ k <= cl THEN Nil ELSE snapChain[k]]

AliasAfterResize(l) ==
    LET cl == Len(chainZones)
    IN  IF cl = 0 THEN {}
        ELSE IF cl < l
             THEN snapAlias \cup
                     (IF snapShared
                      THEN {k \in (cl + 1)..Min(l, chainCap) : k <= Len(snapChain)}
                      ELSE {})
             ELSE {k \in snapAlias : k <= l}

\* device.go:215-248 Device.SetMatrixProperties, what it does to the device
SetMatrixProperties_Body(p) ==
    /\ call' = <<"SetMatrixProperties">>
    /\ IF p.Count = 0
       THEN /\ updated' = FALSE
            /\ UNCHANGED <<matrixVars, snapVars, panicked>>
       ELSE IF p.StartIndex >= TileDevicesLen
       THEN \* p.TileDevices[firstIdx]: index out of range
            /\ panicked' = TRUE
            /\ UNCHANGED <<matrixVars, snapVars, updated>>
       ELSE IF mWidth = p.Width /\ mHeight = p.Height /\ mChainLength = p.Count
       THEN /\ updated' = FALSE
            /\ UNCHANGED <<matrixVars, snapVars, panicked>>
       ELSE /\ mWidth' = p.Width
            /\ mHeight' = p.Height
            /\ mNZones' = p.Width * p.Height
            /\ mChainLength' = p.Count
            /\ mStatePackets' = 1 + GoDiv(p.Width * p.Height - 1, 64)
            /\ chainZones' = Resized(chainZones, p.Count, p.Width * p.Height)
            /\ chainCap' \in IF Len(chainZones) = 0 THEN {p.Count}
                              ELSE GrownCaps(chainCap, p.Count)
            /\ snapChain' = SnapAfterResize(p.Count, p.Width * p.Height)
            /\ snapAlias' = AliasAfterResize(p.Count)
            /\ snapShared' = (snapShared /\ Len(chainZones) > 0 /\ p.Count <= chainCap)
            /\ updated' = TRUE
            /\ UNCHANGED <<snapTaken, snapProps, snapZones, snapZonesAlias, panicked>>

\* Device.SetMatrixProperties called on a device of its own
SetMatrixProperties(p) ==
    /\ ~panicked
    /\ SetMatrixProperties_Body(p)
    /\ UNCHANGED <<zones, engineVarsButPanicked, inboxVars>>

\* device.go:251-275 Device.SetMatrixState, what it does to the device
SetMatrixState_Body(p) ==
    /\ call' = <<"SetMatrixState", p>>
    /\ IF p.TileIndex > Len(chainZones) - 1
       THEN /\ updated' = FALSE
            /\ UNCHANGED <<chainZones, snapChain>>
       ELSE LET tile == chainZones[p.TileIndex + 1]
                zoneIndex == ZoneIndex(p.Y, mWidth)
            IN  IF zoneIndex >= Len(tile) \/ ~StateDiffers(tile, zoneIndex, p)
                THEN /\ updated' = FALSE
                     /\ UNCHANGED <<chainZones, snapChain>>
                ELSE /\ updated' = TRUE
                     /\ chainZones' = [chainZones EXCEPT ![p.TileIndex + 1] =
                                          StateCopied(tile, zoneIndex, p)]
                     /\ snapChain' =
                           IF (p.TileIndex + 1) \in snapAlias
                           THEN [snapChain EXCEPT ![p.TileIndex + 1] =
                                    StateCopied(tile, zoneIndex, p)]
                           ELSE snapChain
    /\ UNCHANGED <<mWidth, mHeight, mNZones, mStatePackets, mChainLength, chainCap,
                   snapTaken, snapProps, snapAlias, snapShared, snapZones,
                   snapZonesAlias>>

\* Device.SetMatrixState called on a device of its own
SetMatrixState(p) ==
    /\ ~panicked
    /\ SetMatrixState_Body(p)
    /\ UNCHANGED <<zones, engineVars, inboxVars>>

\* device.go:278-280: Zones is made anew when its length is not p.Count
ZonesSized(z, p) == IF Len(z) # p.Count THEN Zeros(p.Count) ELSE z

\* device.go:284: the frame is rejected
ZonesRejected(z, p) == p.ColorsCount = 0 \/ p.Index >= Len(z)

\* device.go:288: copy(Zones[startIndex:], p.Colors[:])
ZonesCopied(z, p) == CopyAt(z, p.Index, [j \in 1..ZoneColorsLen |-> ZoneColor(p, j - 1)])

\* device.go:277-290 Device.SetMultizoneProperties
SetMultizoneProperties(p) ==
    /\ ~panicked
    /\ call' = <<"SetMultizoneProperties", p>>
    /\ LET sized == ZonesSized(zones, p)
           after == IF ZonesRejected(sized, p) THEN sized ELSE ZonesCopied(sized, p)
           same == Len(zones) = p.Count
       IN  /\ updated' = ~ZonesRejected(sized, p)
           /\ zones' = after
           /\ snapZonesAlias' = (snapZonesAlias /\ same)
           /\ snapZones' = IF snapZonesAlias /\ same THEN after ELSE snapZones
    /\ UNCHANGED <<matrixVars, snapTaken, snapProps, snapChain, snapAlias, snapShared>>
    /\ UNCHANGED <<engineVars, inboxVars>>

\* session.go:616-621 DeviceSession.DeviceSnapshot: return *s.device, a copy of the
\* struct.  The integers are copied; the slices ChainZones and Zones are copied as
\* slice headers, which point to the arrays of the device
DeviceSnapshot ==
    /\ ~panicked
    /\ call' = <<"DeviceSnapshot">>
    /\ snapTaken' = TRUE
    /\ snapProps' = <<mWidth, mHeight, mNZones, mStatePackets, mChainLength>>
    /\ snapChain' = chainZones
    /\ snapAlias' = 1..Len(chainZones)
    /\ snapShared' = (Len(chainZones) > 0)
    /\ snapZones' = zones
    /\ snapZonesAlias' = (Len(zones) > 0)
    /\ UNCHANGED <<matrixVars, zones, updated>>
    /\ UNCHANGED <<engineVars, inboxVars>>

\* the holder of the copy sets entry j of tile k of its ChainZones (both counted
\* from 1) to the colour c
Snapshot_Write(k, j, c) ==
    /\ ~panicked
    /\ snapTaken
    /\ k \in 1..Len(snapChain)
    /\ j \in 1..Len(snapChain[k])
    /\ snapChain[k][j] # c
    /\ call' = <<"Snapshot_Write", k, j>>
    /\ snapChain' = [snapChain EXCEPT ![k][j] = c]
    /\ chainZones' = IF k \in snapAlias THEN [chainZones EXCEPT ![k][j] = c]
                      ELSE chainZones
    /\ UNCHANGED <<mWidth, mHeight, mNZones, mStatePackets, mChainLength, chainCap,
                   zones, updated, snapTaken, snapProps, snapAlias, snapShared,
                   snapZones, snapZonesAlias>>
    /\ UNCHANGED <<engineVars, inboxVars>>

\* ------------------------------------------- the session and its device
\* the frames the router hands to the session: the payloads recvloop has a case
\* for (session.go:677-705), one it has none for, and the chain and state frames
\* of tiles of one zone
InboxFrames ==
    {<<"StateLabel", 1>>, <<"StatePower", 0>>, <<"StatePower", 1>>,
     <<"StateService">>, <<"StateUnhandled">>, <<"Unknown">>}
    \cup {<<"MultiZone", p>> : p \in FirstZonePackets}
    \cup {<<"TileStateDeviceChain", p>> : p \in {q \in ChainPackets : q.Width = 1 /\ q.Height = 1}}
    \cup {<<"TileState64", p>> : p \in RowStatePackets}

\* controller.go:346-350: a frame is put in the inbox when there is room
Inbox_Offer(f) ==
    /\ ~panicked
    /\ Len(box) < MaxInbox
    /\ box' = Append(box, f)
    /\ UNCHANGED <<now, devLabel, devPoweredOn, devLastSeenAt, devVars, engineVars>>

\* time passes
Tick ==
    /\ ~panicked
    /\ now < MaxClock
    /\ now' = now + 1
    /\ UNCHANGED <<box, devLabel, devPoweredOn, devLastSeenAt, devVars, engineVars>>

\* session.go:670-708: recvloop takes a frame from the inbox, updates the device by
\* its payload under the lock and then sets LastSeenAt.  A panic in the update
\* unwinds the goroutine before line 707
sessionRecvloop_Frame ==
    /\ ~panicked
    /\ box # <<>>
    /\ box' = Tail(box)
    /\ LET f == Head(box)
       IN  CASE f[1] = "TileStateDeviceChain" ->
                    /\ SetMatrixProperties_Body(f[2])
                    /\ UNCHANGED <<devLabel, devPoweredOn>>
             [] f[1] = "TileState64" ->
                    /\ SetMatrixState_Body(f[2])
                    /\ UNCHANGED <<devLabel, devPoweredOn, panicked>>
             [] f[1] = "StateLabel" ->
                    /\ devLabel' = f[2]
                    /\ UNCHANGED <<devPoweredOn, panicked, matrixVars, updated, call, snapVars>>
             [] f[1] = "StatePower" ->
                    /\ devPoweredOn' = (f[2] > 0)
                    /\ UNCHANGED <<devLabel, panicked, matrixVars, updated, call, snapVars>>
             [] OTHER ->
                    UNCHANGED <<devLabel, devPoweredOn, panicked, matrixVars, updated,
                                call, snapVars>>
    /\ devLastSeenAt' = IF panicked' THEN devLastSeenAt ELSE now
    /\ UNCHANGED <<now, zones, engineVarsButPanicked>>

\* ------------------------------------------------------ DeviceSession.Send
\* conversion of the counter to uint8: its low eight bits
Uint8_SevenBits(c) == c[2] % 128

Uint8(c) == c[2] % 256

\* atomic.Uint32.Add(1): the new value of the counter, which wraps after 2^32 - 1
Add1(c) ==
    IF c[2] + 1 < 65536 THEN <<c[1], c[2] + 1>> ELSE <<(c[1] + 1) % 65536, 0>>

\* session.go:605: Send is called with n messages
Send_Call(c, n) ==
    /\ ~panicked
    /\ sendPc[c] = "idle"
    /\ sendPc' = [sendPc EXCEPT ![c] = "loop"]
    /\ sendN' = [sendN EXCEPT ![c] = n]
    /\ sendI' = [sendI EXCEPT ![c] = 0]
    /\ attempted' = [attempted EXCEPT ![c] = <<>>]
    /\ sendFailed' = [sendFailed EXCEPT ![c] = FALSE]
    /\ sendErr' = [sendErr EXCEPT ![c] = FALSE]
    /\ UNCHANGED <<seq, stamps, lastAt, coreVars, inboxVars, devVars, preVars>>

\* session.go:606-608, 623-627: the next message is given its target and the
\* sequence number nextSeq returns - uint8 of the counter after one atomic Add(1)
nextSeq(c) ==
    /\ ~panicked
    /\ sendPc[c] = "loop"
    /\ sendI[c] < sendN[c]
    /\ stamps < MaxStamps
    /\ seq' = Add1(seq)
    /\ stamps' = stamps + 1
    /\ lastAt' = [lastAt EXCEPT ![Uint8(Add1(seq))] = stamps + 1]
    /\ sendPc' = [sendPc EXCEPT ![c] = "send"]
    /\ UNCHANGED <<sendN, sendI, attempted, sendFailed, sendErr, coreVars, inboxVars,
                   devVars, preVars>>

\* session.go:609: s.sender.Send takes the message
Send_Sent(c) ==
    /\ ~panicked
    /\ sendPc[c] = "send"
    /\ attempted' = [attempted EXCEPT ![c] = Append(@, sendI[c] + 1)]
    /\ sendI' = [sendI EXCEPT ![c] = @ + 1]
    /\ sendPc' = [sendPc EXCEPT ![c] = "loop"]
    /\ UNCHANGED <<seq, stamps, lastAt, sendN, sendFailed, sendErr, coreVars,
                   inboxVars, devVars, preVars>>

\* session.go:609-611: s.sender.Send fails on the message and Send returns the
\* error at once
Send_Failed(c) ==
    /\ ~panicked
    /\ sendPc[c] = "send"
    /\ attempted' = [attempted EXCEPT ![c] = Append(@, sendI[c] + 1)]
    /\ sendFailed' = [sendFailed EXCEPT ![c] = TRUE]
    /\ sendErr' = [sendErr EXCEPT ![c] = TRUE]
    /\ sendPc' = [sendPc EXCEPT ![c] = "idle"]
    /\ UNCHANGED <<seq, stamps, lastAt, sendN, sendI, coreVars, inboxVars, devVars,
                   preVars>>

\* session.go:613: the loop is over, Send returns nil
Send_Return(c) ==
    /\ ~panicked
    /\ sendPc[c] = "loop"
    /\ sendI[c] = sendN[c]
    /\ sendPc' = [sendPc EXCEPT ![c] = "idle"]
    /\ UNCHANGED <<seq, stamps, lastAt, sendN, sendI, attempted, sendFailed, sendErr,
                   coreVars, inboxVars, devVars, preVars>>

\* ------------------------------------------------------ DeviceSession.run
\* what run leaves alone
restOfRun == <<coreVars, inboxVars, devVars, sendVars>>

\* session.go:734-739: the requests of the list that have an entry in
\* messageDoneFuncs which does not hold yet, in the order of the list
RetryMsgs(req, kn) == SelectSeq(req, LAMBDA m : m \in MessageDoneFuncs /\ m \notin kn)

\* session.go:744: time.Now().After(deadline)
DeadlinePassed_Never(t, deadline) == FALSE

DeadlinePassed(t, deadline) == t > deadline

\* session.go:724-725: the list is not empty, Send(required...); the select that
\* follows starts time.After(wait)
preflightHandshake_Send ==
    /\ ~panicked
    /\ pfPc = "send"
    /\ required # <<>>
    /\ pfPc' = "select"
    /\ pfWake' = now + cfgWait
    /\ UNCHANGED <<required, known, pfDeadline, cfgWait, hfAt, closed, sawClose, probes,
                   restOfRun>>

\* session.go:724: the list is empty, preflightHandshake returns
preflightHandshake_Empty ==
    /\ ~panicked
    /\ pfPc = "send"
    /\ required = <<>>
    /\ pfPc' = "tickers"
    /\ UNCHANGED <<required, known, pfDeadline, pfWake, cfgWait, hfAt, closed, sawClose,
                   probes, restOfRun>>

\* session.go:728-729: case <-s.done: return
preflightHandshake_Done ==
    /\ ~panicked
    /\ pfPc = "select"
    /\ closed
    /\ pfPc' = "tickers"
    /\ sawClose' = TRUE
    /\ UNCHANGED <<required, known, pfDeadline, pfWake, cfgWait, hfAt, closed, probes,
                   restOfRun>>

\* session.go:730-741: case <-time.After(wait): the list shrinks to the requests
\* to retry
preflightHandshake_Poll ==
    /\ ~panicked
    /\ pfPc = "select"
    /\ now >= pfWake
    /\ required' = RetryMsgs(required, known)
    /\ pfPc' = "check"
    /\ UNCHANGED <<known, pfDeadline, pfWake, cfgWait, hfAt, closed, sawClose, probes,
                   restOfRun>>

\* session.go:744-751: after the poll, return when the deadline has passed,
\* otherwise go round again
preflightHandshake_Check ==
    /\ ~panicked
    /\ pfPc = "check"
    /\ pfPc' = IF DeadlinePassed(now, pfDeadline) THEN "tickers" ELSE "send"
    /\ UNCHANGED <<required, known, pfDeadline, pfWake, cfgWait, hfAt, closed, sawClose,
                   probes, restOfRun>>

\* session.go:637-642: preflightHandshake has returned; run makes its tickers and
\* enters the refresh loop
run_NewTickers ==
    /\ ~panicked
    /\ pfPc = "tickers"
    /\ hfAt' = now + HfPeriod
    /\ pfPc' = "loop"
    /\ UNCHANGED <<required, known, pfDeadline, pfWake, cfgWait, closed, sawClose,
                   probes, restOfRun>>

\* session.go:644-645: case <-s.done: return
run_SelectDone ==
    /\ ~panicked
    /\ pfPc = "loop"
    /\ closed
    /\ pfPc' = "exited"
    /\ UNCHANGED <<required, known, pfDeadline, pfWake, cfgWait, hfAt, closed, sawClose,
                   probes, restOfRun>>

\* session.go:646-648: case <-hfTicker.C: the high frequency requests are sent and
\* the ticker is reset.  select takes any of the cases that are ready
run_SelectTicker ==
    /\ ~panicked
    /\ pfPc = "loop"
    /\ now >= hfAt
    /\ probes < MaxProbes
    /\ probes' = probes + 1
    /\ hfAt' = now + HfPeriod
    /\ UNCHANGED <<pfPc, required, known, pfDeadline, pfWake, cfgWait, closed, sawClose,
                   restOfRun>>

\* session.go:600-602: the session is closed
Session_Close ==
    /\ ~panicked
    /\ pfPc # "none"
    /\ ~closed
    /\ closed' = TRUE
    /\ UNCHANGED <<pfPc, required, known, pfDeadline, pfWake, cfgWait, hfAt, sawClose,
                   probes, restOfRun>>

\* session.go:677-696: recvloop has applied the answer to the request m, whose
\* messageDoneFuncs entry holds from now on
Device_Answer(m) ==
    /\ ~panicked
    /\ pfPc # "none"
    /\ m \notin known
    /\ known' = known \cup {m}
    /\ UNCHANGED <<pfPc, required, pfDeadline, pfWake, cfgWait, hfAt, closed, sawClose,
                   probes, restOfRun>>

\* the timers run waits on that have not fired yet
PendingTimers ==
    (IF pfPc \in {"send", "select", "check"} THEN {pfDeadline + 1} ELSE {})
    \cup (IF pfPc = "select" THEN {pfWake} ELSE {})
    \cup (IF pfPc = "loop" THEN {hfAt} ELSE {})

\* time passes, as long as run waits for a timer that lies ahead
Timers_Elapse ==
    /\ ~panicked
    /\ \E t \in PendingTimers : now < t
    /\ now' = now + 1
    /\ UNCHANGED <<box, devLabel, devPoweredOn, devLastSeenAt, devVars, coreVars,
                   sendVars, preVars>>

\* the steps of run
RunStep ==
    \/ preflightHandshake_Send
    \/ preflightHandshake_Empty
    \/ preflightHandshake_Done
    \/ preflightHandshake_Poll
    \/ preflightHandshake_Check
    \/ run_NewTickers
    \/ run_SelectDone
    \/ run_SelectTicker

\* ------------------------------------------------------------ matrix.Matrix

\* the parts of the program package matrix never touches
libRest == <<ctrlVars, sessVars, inboxVars, devVars, sendVars, preVars, apiVars, msgVars,
            parseVars, lateVars>>

\* the colours a caller paints with; 0 is the zero LightHsbk
Paints == {1, 2}

\* matrix.go:25-39: New(width, height, chainLength), every pixel the zero colour
New(width, height, chainLength) ==
    [Width |-> width, Height |-> height,
     Colors |-> [y \in 0..(height - 1) |-> [x \in 0..(width - 1) |-> 0]],
     ChainLength |-> chainLength]

Matrix_New(width, height, chainLength) ==
    /\ ~panicked
    /\ mx = NoMatrix
    /\ mx' = New(width, height, chainLength)
    /\ UNCHANGED <<libRest, panicked, painted, flat, fxVars>>

\* matrix.go:56-59: SetPixel(x, y, c) on a pixel of the canvas
Matrix_SetPixel(x, y, c) ==
    /\ ~panicked
    /\ mx # NoMatrix
    /\ flat = <<>>
    /\ painted < MaxPaint
    /\ x < mx.Width
    /\ y < mx.Height
    /\ mx' = [mx EXCEPT !.Colors[y][x] = c]
    /\ painted' = painted + 1
    /\ UNCHANGED <<libRest, panicked, flat, fxVars>>

\* matrix.go:179-183: the loops store Colors[y][x] at index y*m.Height + x, rows in
\* increasing order, so that an index written by several rows keeps the last of them
FlattenAt(m, j) ==
    LET rows == {y \in 0..(m.Height - 1) :
                    j - y * m.Height >= 0 /\ j - y * m.Height < m.Width}
    IN IF rows = {}
       THEN 0
       ELSE LET last == CHOOSE y \in rows : \A z \in rows : z <= y
            IN m.Colors[last][j - last * m.Height]

\* matrix.go:178-184: the [64]LightHsbk FlattenColors returns
FlattenColors(m) == [j \in 1..TileColorsLen |-> FlattenAt(m, j - 1)]

\* matrix.go:181: an index past the array panics
FlattenPanics(m) ==
    \E y \in 0..(m.Height - 1), x \in 0..(m.Width - 1) :
        y * m.Height + x >= TileColorsLen

Matrix_FlattenColors ==
    /\ ~panicked
    /\ mx # NoMatrix
    /\ flat = <<>>
    /\ IF FlattenPanics(mx)
       THEN panicked' = TRUE /\ flat' = flat
       ELSE panicked' = panicked /\ flat' = FlattenColors(mx)
    /\ UNCHANGED <<libRest, mx, painted, fxVars>>

\* ----------------------------------------------------------- matrix effects

\* conversion of an int to uint8
Byte(n) == n % 256

\* matrix.go:35: the Size field that New sets
Size(m) == m.Width * m.Height

\* matrix.go:51-53: Clear() without pixels zeroes every row
Clear(m) ==
    [m EXCEPT !.Colors = [y \in 0..(m.Height - 1) |-> [x \in 0..(m.Width - 1) |-> 0]]]

\* matrix.go:56-59
SetPixel(m, x, y, c) == [m EXCEPT !.Colors[y][x] = c]

\* matrix.go:44-48: Clear(pixels...) sets each of the pixels to the zero colour
RECURSIVE ClearPixels(_, _, _)
ClearPixels(m, pixels, k) ==
    IF k >= Len(pixels)
    THEN m
    ELSE ClearPixels(SetPixel(m, pixels[k + 1][1], pixels[k + 1][2], 0), pixels, k + 1)

\* matrix.go:63-76: SetColors(x, y, cs...), from the k-th colour on
RECURSIVE SetColorsFrom(_, _, _, _, _)
SetColorsFrom(m, x, y, cs, k) ==
    IF k >= Len(cs)
    THEN m
    ELSE IF x >= m.Width
         THEN IF y >= m.Height - 1
              THEN m
              ELSE SetColorsFrom(SetPixel(m, 0, y + 1, cs[k + 1]), 1, y + 1, cs, k + 1)
         ELSE SetColorsFrom(SetPixel(m, x, y, cs[k + 1]), x + 1, y, cs, k + 1)

SetColors(m, x, y, cs) == SetColorsFrom(m, x, y, cs, 0)

\* part_013:44-52: Pixels(), a pixel that was never set reads as Pixel{0, 0}
Pixels(cache) ==
    [k \in 1..Len(cache) |-> IF cache[k] = <<>> THEN <<0, 0>> ELSE cache[k]]

\* part_010:371-383: nextPixel(m, i, y, &reversed)
nextPixel(m, i, y, reversed) ==
    LET x == i % m.Width
        wraps == i > 0 /\ x = 0
        rev == IF wraps THEN ~reversed ELSE reversed
    IN [x |-> IF rev THEN (m.Width - 1) - x ELSE x,
        y |-> IF wraps THEN y + 1 ELSE y,
        reversed |-> rev]

\* the colour of a worm or a snake
WormColor == 1

\* part_010:115-119: turn i of waterfall's loop, up to the send
waterfall_Draw(m, p) ==
    LET m0 == IF p.i = 0 THEN Clear(m) ELSE m
        x == GoDiv(m.Width - Len(fx.colors), 2)
    IN [m |-> SetColors(m0, x, p.i, fx.colors), p |-> p]

\* part_010:153-165: turn i of rockets' loop, up to the send
rockets_Draw(m, p) ==
    LET n == Len(fx.colors)
        x == p.i % m.Width
        wraps == p.i > 0 /\ x = 0
        y == IF wraps THEN p.y + 1 ELSE p.y
        color == IF wraps THEN fx.colors[(y % n) + 1]
                 ELSE IF p.i = 0 THEN fx.colors[1] ELSE p.color
    IN [m |-> SetPixel(Clear(m), x, y, color), p |-> [p EXCEPT !.y = y, !.color = color]]

\* part_010:198-214: turn i of worm's first loop, up to the send
worm_Draw(m, p) ==
    LET m0 == IF p.i = 0 THEN Clear(m) ELSE m
        cache0 == IF p.i = 0 THEN NewPixelCache(fx.size) ELSE p.cache
        np == nextPixel(m, p.i, p.y, p.reversed)
        full == p.pixelsSet = fx.size
        m1 == IF full THEN ClearPixels(m0, Pixels(cache0), 0) ELSE m0
        cache1 == [cache0 EXCEPT ![(p.i % fx.size) + 1] = <<np.x, np.y>>]
    IN [m |-> SetPixel(m1, np.x, np.y, WormColor),
        p |-> [p EXCEPT !.y = np.y, !.reversed = np.reversed,
                        !.pixelsSet = (IF full THEN 0 ELSE p.pixelsSet) + 1,
                        !.cache = cache1]]

\* part_010:256-271: turn i of snake's first loop, up to the send
snake_Draw(m, p) ==
    LET m0 == IF p.i = 0 THEN Clear(m) ELSE m
        cache0 == IF p.i = 0 THEN NewPixelCache(fx.size) ELSE p.cache
        np == nextPixel(m, p.i, p.y, p.reversed)
        old == cache0[(p.i % fx.size) + 1]
        m1 == IF old # <<>> THEN SetPixel(m0, old[1], old[2], 0) ELSE m0
        cache1 == [cache0 EXCEPT ![(p.i % fx.size) + 1] = <<np.x, np.y>>]
    IN [m |-> SetPixel(m1, np.x, np.y, WormColor),
        p |-> [p EXCEPT !.y = np.y, !.reversed = np.reversed, !.cache = cache1]]

\* part_010:222-223, 279-280: turn i of the loop that clears the tail, up to the send
tail_Draw(m, p) ==
    LET px == Pixels(p.cache)[p.i + 1]
    IN [m |-> SetPixel(m, px[1], px[2], 0), p |-> p]

Draw(m, p) ==
    IF p.loop = "tail" THEN tail_Draw(m, p)
    ELSE IF fx.kind = "Waterfall" THEN waterfall_Draw(m, p)
    ELSE IF fx.kind = "Rockets" THEN rockets_Draw(m, p)
    ELSE IF fx.kind = "Worm" THEN worm_Draw(m, p)
    ELSE snake_Draw(m, p)

\* part_010:118, 156, 205, 263: the turns of a body's first loop
MainFrames(m) == IF fx.kind = "Waterfall" THEN m.Height ELSE Size(m)

\* part_010:222, 279: the turns of the loop over pxCache.Pixels()
TailFrames == IF fx.kind \in {"Worm", "Snake"} THEN fx.size ELSE 0

\* part_010:96-109: the tile index the mode switch hands to the body
BodyIndex(mode, ti) == IF mode = ChainModeSequential THEN ti ELSE 0

\* part_010:96-109: the length the mode switch hands to the body
BodyLength_One(mode, chainLength) == 1

BodyLength(mode, chainLength) == IF mode = ChainModeSynced THEN chainLength ELSE 1

\* messages/matrix.go:216-225: the TileSet64 message without its colours
newTileSet64Msg(startIndex, length, fb, width, x, y, d) ==
    [type |-> "TileSet64", TileIndex |-> Byte(startIndex), Length |-> Byte(length),
     FbIndex |-> Byte(fb), Width |-> Byte(width), X |-> Byte(x), Y |-> Byte(y),
     Duration |-> d]

\* messages/matrix.go:17-19
SetMatrixColors(startIndex, length, width, d) ==
    newTileSet64Msg(startIndex, length, 0, width, 0, 0, d)

\* part_010:17: minInterval, in milliseconds
minInterval == 1

\* part_010:272-274: what the body makes of an error of send
snake_OnError(loop, err) == IF loop = "main" THEN "nil" ELSE err

body_OnError(loop, err) == IF fx.kind = "Snake" THEN snake_OnError(loop, err) ELSE err

\* the effects and their arguments: a palette of n colours for Waterfall and Rockets,
\* a size for Worm and Snake
FxCalls ==
    {[kind |-> k, n |-> n, size |-> 0] : k \in {"Waterfall", "Rockets"}, n \in 0..MaxPalette}
    \cup {[kind |-> k, n |-> 0, size |-> s] : k \in {"Worm", "Snake"}, s \in 0..MaxPalette}

ChainModes == {ChainModeNone, ChainModeSequential, ChainModeSynced}

\* the widths and heights of the matrices the effects run on, two of them with more
\* than 64 pixels
FxSizes == {<<1, 2>>, <<2, 1>>, <<33, 2>>, <<16, 8>>}

\* part_010:89-95, 132-134, 176-179, 234-237: the effect is called with a send function
\* that SendWithStop made, and reaches its repeatForCycles
Effect_Start(c, mode, cycles) ==
    /\ ~panicked
    /\ fxPc = "idle"
    /\ mx # NoMatrix
    /\ fx' = [kind |-> c.kind, mode |-> mode, cycles |-> cycles,
              colors |-> [k \in 1..(IF c.kind = "Waterfall" THEN Min(c.n, mx.Width)
                                                            ELSE c.n) |-> k],
              size |-> IF c.kind \in {"Worm", "Snake"}
                       THEN Min(Max(c.size, 1), mx.Width) ELSE 0]
    /\ fxPc' = IF mode = ChainModeSequential /\ mx.ChainLength = 0
               THEN IF cycles > 0 THEN "returned" ELSE "spinning"
               ELSE "running"
    /\ UNCHANGED <<libRest, panicked, canvasVars, fxPos, fxErr, stopped, fxLog,
                   fxAttempts, fxSendErr>>

\* part_010:76-84: the application sets the flag that SendWithStop returned
Effect_Stop ==
    /\ ~panicked
    /\ fxPc = "running"
    /\ ~stopped
    /\ stopped' = TRUE
    /\ UNCHANGED <<libRest, panicked, canvasVars, fx, fxPc, fxPos, fxErr, fxLog,
                   fxAttempts, fxSendErr>>

\* one turn of a body's loop: the canvas is drawn and flattened, send is called, and the
\* effect goes on to its next send or returns.  fails: the underlying send returns
\* an error
Effect_Step(fails) ==
    /\ ~panicked
    /\ fxPc = "running"
    /\ fxPos.cycle < MaxCycles
    /\ fxAttempts < MaxAttempts
    /\ stopped => ~fails
    /\ fails => Cardinality({k \in DOMAIN fxLog : ~fxLog[k].ok}) < MaxFails
    /\ UNCHANGED <<libRest, painted>>
    /\ IF fx.kind = "Rockets" /\ fxPos.loop = "main" /\ fxPos.i = 0 /\ Len(fx.colors) = 0
       THEN \* part_010:155: colors[0] of an empty palette
            /\ panicked' = TRUE
            /\ mx' = Clear(mx)
            /\ UNCHANGED <<flat, fxVars>>
       ELSE LET p == fxPos
                drawn == Draw(mx, p)
            IN IF FlattenPanics(drawn.m)
               THEN /\ panicked' = TRUE
                    /\ mx' = drawn.m
                    /\ UNCHANGED <<flat, fxVars>>
               ELSE LET \* part_010:78-83: the function SendWithStop returned
                        err == IF stopped THEN "ErrStopped"
                               ELSE IF fails THEN "ErrSend" ELSE "nil"
                        frame == IF p.loop = "main" THEN p.i ELSE MainFrames(mx) + p.i
                        msg == SetMatrixColors(Byte(BodyIndex(fx.mode, p.ti)),
                                               Byte(BodyLength(fx.mode, mx.ChainLength)),
                                               Byte(mx.Width), minInterval)
                        toTail == p.loop = "main" /\ p.i + 1 = MainFrames(mx)
                                      /\ TailFrames > 0
                        lastTurn == \/ p.loop = "main" /\ p.i + 1 = MainFrames(mx)
                                                      /\ TailFrames = 0
                                    \/ p.loop = "tail" /\ p.i + 1 = TailFrames
                        bodyReturns == err # "nil" \/ lastTurn
                        bodyErr == IF err = "nil" THEN "nil" ELSE body_OnError(p.loop, err)
                        \* part_010:97-109: the mode switch
                        nextTile == /\ fx.mode = ChainModeSequential
                                    /\ bodyErr = "nil"
                                    /\ p.ti + 1 < mx.ChainLength
                        \* part_010:351-366: repeatForCycles
                        effectReturns == \/ bodyErr # "nil"
                                         \/ fx.cycles > 0 /\ p.cycle + 1 = fx.cycles
                    IN /\ panicked' = panicked
                       /\ mx' = drawn.m
                       /\ flat' = FlattenColors(drawn.m)
                       /\ fxAttempts' = fxAttempts + 1
                       /\ fxSendErr' = err
                       /\ fxLog' = IF stopped THEN fxLog
                                   ELSE Append(fxLog, [msg |-> msg, frame |-> frame,
                                                       ok |-> err = "nil"])
                       /\ UNCHANGED <<fx, stopped>>
                       /\ IF ~bodyReturns
                          THEN /\ fxPos' = IF toTail
                                           THEN [drawn.p EXCEPT !.loop = "tail", !.i = 0]
                                           ELSE [drawn.p EXCEPT !.i = @ + 1]
                               /\ UNCHANGED <<fxPc, fxErr>>
                          ELSE IF nextTile
                          THEN /\ fxPos' = [StartPos EXCEPT !.cycle = p.cycle,
                                                            !.ti = p.ti + 1]
                               /\ UNCHANGED <<fxPc, fxErr>>
                          ELSE IF effectReturns
                          THEN /\ fxPc' = "returned"
                               /\ fxErr' = bodyErr
                               /\ fxPos' = drawn.p
                          ELSE /\ fxPos' = [StartPos EXCEPT !.cycle = p.cycle + 1]
                               /\ UNCHANGED <<fxPc, fxErr>>

\* ---------------------------------------------------------- package messages

\* multizone.go:13
extendedMultizoneMsgMaxZones == 82

\* the parts of the program package messages never touches
msgRest == <<ctrlVars, sessVars, panicked, inboxVars, devVars, sendVars, preVars, apiVars,
             canvasVars, fxVars, parseVars, lateVars>>

\* the list of n colours a caller hands over, none of them the zero colour
ColorList(n) == [k \in 1..n |-> (k % 3) + 1]

\* multizone.go:29: Index is uint16(startIndex + offset)
ChunkIndex_NoStart(startIndex, offset) == offset % 65536

ChunkIndex(startIndex, offset) == (startIndex + offset) % 65536

\* multizone.go:25-35: the loop of SetMultizoneExtendedColors from offset on; Apply is
\* left at its zero value
RECURSIVE ExtendedChunks(_, _, _, _)
ExtendedChunks(startIndex, colors, offset, d) ==
    IF offset >= Len(colors)
    THEN <<>>
    ELSE LET end == Min(Len(colors), offset + extendedMultizoneMsgMaxZones)
             chunk == SubSeq(colors, offset + 1, end)
         IN <<[Index |-> ChunkIndex(startIndex, offset),
               ColorsCount |-> Byte(Len(chunk)),
               Duration |-> d,
               Apply |-> "NO_APPLY",
               Colors |-> chunk \o Zeros(ZoneColorsLen - Len(chunk))]>>
            \o ExtendedChunks(startIndex, colors,
                              offset + extendedMultizoneMsgMaxZones, d)

\* multizone.go:21-46
SetMultizoneExtendedColors(startIndex, colors, d) ==
    LET chunks == ExtendedChunks(startIndex, colors, 0, d)
    IN IF Len(chunks) = 1
       THEN <<[chunks[1] EXCEPT !.Apply = "APPLY"]>>
       ELSE Append(chunks, [Index |-> 0, ColorsCount |-> 0, Duration |-> 0,
                            Apply |-> "APPLY_ONLY", Colors |-> Zeros(ZoneColorsLen)])

Messages_SetMultizoneExtendedColors(startIndex, n, d) ==
    /\ built = <<>>
    /\ built' = <<"SetMultizoneExtendedColors", startIndex, n, d>>
    /\ msgs' = SetMultizoneExtendedColors(startIndex, ColorList(n), d)
    /\ UNCHANGED msgRest

\* matrix.go:201-214 of package messages
SetMatrixVisibleFrameBuffer(startIndex, length, fb, width, height, d) ==
    [type |-> "TileCopyFrameBuffer", TileIndex |-> Byte(startIndex),
     Length |-> Byte(length), DstFbIndex |-> 0, SrcFbIndex |-> Byte(fb),
     Width |-> Byte(width), Height |-> Byte(height), Duration |-> d]

\* matrix.go:36-45 of package messages: the loop of SetMatrixColorsFromSlice appends
\* a message at every 64th colour and at the last one, the tileIndex-th of them with
\* y = tileIndex * 64 / width
RECURSIVE SliceChunks(_, _, _, _, _, _, _)
SliceChunks(startIndex, length, fb, width, n, tileIndex, d) ==
    IF tileIndex * TileColorsLen >= n
    THEN <<>>
    ELSE <<newTileSet64Msg(startIndex, length, fb, width, 0,
                           GoDiv(tileIndex * TileColorsLen, width), d)>>
         \o SliceChunks(startIndex, length, fb, width, n, tileIndex + 1, d)

\* matrix.go:23-54 of package messages, for a slice of n colours
SetMatrixColorsFromSlice(startIndex, length, width, n, d) ==
    LET fb == IF n > TileColorsLen THEN 1 ELSE 0
        chunks == SliceChunks(startIndex, length, fb, width, n, 0, IF fb = 1 THEN 0 ELSE d)
    IN IF fb = 1
       THEN Append(chunks, SetMatrixVisibleFrameBuffer(startIndex, length, fb, width,
                                                       GoDiv(n, width), d))
       ELSE chunks

Messages_SetMatrixColorsFromSlice(startIndex, length, width, n, d) ==
    /\ built = <<>>
    /\ built' = <<"SetMatrixColorsFromSlice", startIndex, length, width, n, d>>
    /\ msgs' = SetMatrixColorsFromSlice(startIndex, length, width, n, d)
    /\ UNCHANGED msgRest

\* ------------------------------------------------- the parsers of package matrix

\* the parts of the program the parsers never touch
parseRest == <<ctrlVars, sessVars, panicked, inboxVars, devVars, sendVars, preVars, apiVars,
               canvasVars, fxVars, msgVars, lateVars>>

\* part_010:33-42
ParseChainMode(m) ==
    IF m = 1 THEN ChainModeNone
    ELSE IF m = 2 THEN ChainModeSequential
    ELSE ChainModeNone

\* part_010:46-51: the animation directions
AnimationDirectionInwards == "Inwards"

AnimationDirectionOutwards == "Outwards"

AnimationDirectionInOut == "InOut"

AnimationDirectionOutIn == "OutIn"

\* part_010:55-66
ParseAnimationDirection(m) ==
    IF m = 1 THEN AnimationDirectionOutwards
    ELSE IF m = 2 THEN AnimationDirectionInOut
    ELSE IF m = 3 THEN AnimationDirectionInOut
    ELSE AnimationDirectionInwards

Matrix_ParseChainMode(m) ==
    /\ parsed = <<>>
    /\ parsed' = <<"ParseChainMode", m, ParseChainMode(m)>>
    /\ UNCHANGED parseRest

Matrix_ParseAnimationDirection(m) ==
    /\ parsed = <<>>
    /\ parsed' = <<"ParseAnimationDirection", m, ParseAnimationDirection(m)>>
    /\ UNCHANGED parseRest

\* ------------------------------------------------------------------ locks
\* the session whose locks are followed
LockSerial == "d1"

\* what the steps on the locks leave alone
lockRest == <<inboxVars, devVars, sendVars, preVars, apiVars, canvasVars, fxVars, msgVars,
              parseVars, hsVars, livVars, probeVars>>

lockQuiet == <<ctrlVars, sessVars, panicked, lockRest>>

\* the mode in which task t holds lock l
Held(l, t) == IF mus[l].w = t THEN "W" ELSE IF t \in mus[l].r THEN "R" ELSE "none"

\* the lock call task t is in, by the place it has reached: the lock and the mode
Wants(t) ==
    LET p == tpc[t] IN
    IF t = "router" /\ p = "route" THEN <<"c", "R">>
    ELSE IF t = "router" /\ p = "adding" THEN <<"c", "W">>
    ELSE IF t = "recv" /\ p = "lock" THEN <<"s", "W">>
    ELSE IF t = "run" /\ p \in {"poll", "liveness"} THEN <<"s", "R">>
    ELSE IF t = "run" /\ p = "onTimeout" THEN <<"c", "W">>
    ELSE IF t = "app" /\ p \in {"getdevices", "send"} THEN <<"c", "R">>
    ELSE IF t = "app" /\ p = "snapshot" THEN <<"s", "W">>
    ELSE <<"none", "none">>

\* the tasks that are inside Lock() of lock l
PendingW(l) == {t \in LockTasks : Wants(t) = <<l, "W">>}

\* sync.RWMutex: RLock returns when no writer holds the lock and none is inside
\* Lock(); Lock returns when nobody holds the lock
RLockable(l) == mus[l].w = "none" /\ PendingW(l) = {}

Lockable(l) == mus[l].w = "none" /\ mus[l].r = {}

RLock(l, t) == [mus EXCEPT ![l].r = @ \cup {t}]

RUnlock(l, t) == [mus EXCEPT ![l].r = @ \ {t}]

Lock(l, t) == [mus EXCEPT ![l].w = t]

Unlock(l, t) == [mus EXCEPT ![l].w = "none"]

\* the lock that is meant to protect an object
LockOf(obj) == IF obj = "map" THEN "c" ELSE "s"

\* task t reads or writes obj at the place site
Accessed(t, obj, op, site) ==
    [task |-> t, obj |-> obj, op |-> op, site |-> site, mode |-> Held(LockOf(obj), t)]

\* task t goes from one place to the next
Go(t, from, to) == tpc[t] = from /\ tpc' = [tpc EXCEPT ![t] = to]

\* controller.go:329-330: Receive hands a frame to the callback
route_Frame ==
    /\ ~panicked
    /\ ~deadlineSet
    /\ Go("router", "receive", "route")
    /\ UNCHANGED <<mus, access, lockQuiet>>

\* controller.go:332: c.mu.RLock()
route_RLock ==
    /\ ~panicked
    /\ Go("router", "route", "lookup")
    /\ RLockable("c")
    /\ mus' = RLock("c", "router")
    /\ UNCHANGED <<access, lockQuiet>>

\* controller.go:333-334: the session of the serial is looked up and the lock is
\* released; controller.go:336-352: a frame of a known device is offered to its
\* inbox, a StateService frame of an unknown one makes a session (here: as long
\* as none was made), any other frame is dropped
route_Lookup(stateService) ==
    /\ ~panicked
    /\ tpc["router"] = "lookup"
    /\ access' = Accessed("router", "map", "read", "recvloop")
    /\ mus' = RUnlock("c", "router")
    /\ tpc' = [tpc EXCEPT !["router"] =
                 IF LockSerial \notin sessions /\ stateService /\ tpc["recv"] = "none"
                 THEN "new" ELSE "receive"]
    /\ UNCHANGED lockQuiet

\* controller.go:290, session.go:583-597: addSession makes the session, whose two
\* tasks start, and calls c.mu.Lock()
addSession_New ==
    /\ ~panicked
    /\ tpc["router"] = "new"
    /\ tpc' = [tpc EXCEPT !["router"] = "adding", !["recv"] = "select",
                          !["run"] = "preflight"]
    /\ UNCHANGED <<mus, access, lockQuiet>>

\* controller.go:295: c.mu.Lock() returns
addSession_Lock ==
    /\ ~panicked
    /\ Go("router", "adding", "insert")
    /\ Lockable("c")
    /\ mus' = Lock("c", "router")
    /\ UNCHANGED <<access, lockQuiet>>

\* controller.go:296-297: the session is put into the map and the lock released
addSession_Insert ==
    /\ ~panicked
    /\ Go("router", "insert", "receive")
    /\ access' = Accessed("router", "map", "write", "addSession")
    /\ sessions' = sessions \cup {LockSerial}
    /\ mus' = Unlock("c", "router")
    /\ UNCHANGED <<cur, recvPc, recvDone, deadlineSet, connClosed, onceOwner, onceDone,
                   closePc, visited, sessVars, panicked, lockRest>>

\* controller.go:327: Receive returns once the deadline Close has set is reached,
\* and the deferred close(c.recvDone) runs
route_Return ==
    /\ ~panicked
    /\ deadlineSet
    /\ Go("router", "receive", "exited")
    /\ recvDone' = TRUE
    /\ UNCHANGED <<sessions, cur, recvPc, deadlineSet, connClosed, onceOwner, onceDone,
                   closePc, visited, sessVars, panicked, lockRest, mus, access>>

\* session.go:671: recvloop takes a frame and calls s.mu.Lock() (session.go:676)
lockRecv_Frame ==
    /\ ~panicked
    /\ Go("recv", "select", "lock")
    /\ UNCHANGED <<mus, access, lockQuiet>>

\* session.go:676: s.mu.Lock() returns
lockRecv_Lock ==
    /\ ~panicked
    /\ Go("recv", "lock", "locked")
    /\ Lockable("s")
    /\ mus' = Lock("s", "recv")
    /\ UNCHANGED <<access, lockQuiet>>

\* session.go:677-708: the payload is applied to the device, LastSeenAt is set
\* and the lock is released
lockRecv_Apply ==
    /\ ~panicked
    /\ Go("recv", "locked", "select")
    /\ access' = Accessed("recv", "device", "write", "recvloop")
    /\ mus' = Unlock("s", "recv")
    /\ UNCHANGED lockQuiet

\* session.go:709-711: case <-s.done: return
lockRecv_Done ==
    /\ ~panicked
    /\ done[LockSerial]
    /\ Go("recv", "select", "exited")
    /\ UNCHANGED <<mus, access, lockQuiet>>

\* session.go:725-730: the requests are sent and time.After(wait) fires; the poll
\* calls s.mu.RLock() (session.go:732)
lockRun_Wait ==
    /\ ~panicked
    /\ Go("run", "preflight", "poll")
    /\ UNCHANGED <<mus, access, lockQuiet>>

\* session.go:732: s.mu.RLock() returns
lockRun_PollRLock ==
    /\ ~panicked
    /\ Go("run", "poll", "polling")
    /\ RLockable("s")
    /\ mus' = RLock("s", "run")
    /\ UNCHANGED <<access, lockQuiet>>

\* session.go:733-740: the fulfilment predicates read the device and the lock is
\* released; session.go:724, 744: the handshake goes round again or has ended
lockRun_Poll(ended) ==
    /\ ~panicked
    /\ Go("run", "polling", IF ended THEN "loop" ELSE "preflight")
    /\ access' = Accessed("run", "device", "read", "preflightHandshake")
    /\ mus' = RUnlock("s", "run")
    /\ UNCHANGED lockQuiet

\* session.go:728-729, 637-640: s.done is closed; the handshake returns and run
\* goes on to its loop
lockRun_PreflightDone ==
    /\ ~panicked
    /\ done[LockSerial]
    /\ Go("run", "preflight", "loop")
    /\ UNCHANGED <<mus, access, lockQuiet>>

\* session.go:644-645: case <-s.done: return
lockRun_Done ==
    /\ ~panicked
    /\ done[LockSerial]
    /\ Go("run", "loop", "exited")
    /\ UNCHANGED <<mus, access, lockQuiet>>

\* session.go:646-648: s.device.HighFreqStateMessages() reads LightType and the
\* matrix properties of the device (device.go:296-323)
lockRun_HighFreq ==
    /\ ~panicked
    /\ tpc["run"] = "loop"
    /\ access' = Accessed("run", "device", "read", "HighFreqStateMessages")
    /\ UNCHANGED <<mus, tpc, lockQuiet>>

\* session.go:649-651: s.device.LowFreqStateMessages() reads LightType
\* (device.go:329-343)
lockRun_LowFreq ==
    /\ ~panicked
    /\ tpc["run"] = "loop"
    /\ access' = Accessed("run", "device", "read", "LowFreqStateMessages")
    /\ UNCHANGED <<mus, tpc, lockQuiet>>

\* session.go:652-653: the liveness ticker fires and run calls s.mu.RLock()
lockRun_LivenessTick ==
    /\ ~panicked
    /\ Go("run", "loop", "liveness")
    /\ UNCHANGED <<mus, access, lockQuiet>>

\* session.go:653: s.mu.RLock() returns
lockRun_LivenessRLock ==
    /\ ~panicked
    /\ Go("run", "liveness", "checking")
    /\ RLockable("s")
    /\ mus' = RLock("s", "run")
    /\ UNCHANGED <<access, lockQuiet>>

\* session.go:655: s.mu.RUnlock(), before the liveness is judged
LivenessUnlock_Never == mus

LivenessUnlock == RUnlock("s", "run")

\* session.go:654-662: LastSeenAt is read, the lock is released, and the device
\* is found alive or run calls s.onTimeout, which calls c.mu.Lock()
lockRun_Liveness(alive) ==
    /\ ~panicked
    /\ Go("run", "checking", IF alive THEN "loop" ELSE "onTimeout")
    /\ access' = Accessed("run", "device", "read", "run")
    /\ mus' = LivenessUnlock
    /\ UNCHANGED lockQuiet

\* terminate_session: c.mu.Lock() returns
terminateSession_Lock ==
    /\ ~panicked
    /\ Go("run", "onTimeout", "removing")
    /\ Lockable("c")
    /\ mus' = Lock("c", "run")
    /\ UNCHANGED <<access, lockQuiet>>

\* terminate_session: the entry is removed and the lock released
terminateSession_Delete ==
    /\ ~panicked
    /\ Go("run", "removing", IF LockSerial \in sessions THEN "closing" ELSE "exited")
    /\ access' = Accessed("run", "map", "write", "terminateSession")
    /\ sessions' = RemoveEntry(LockSerial)
    /\ mus' = Unlock("c", "run")
    /\ UNCHANGED <<cur, recvPc, recvDone, deadlineSet, connClosed, onceOwner, onceDone,
                   closePc, visited, sessVars, panicked, lockRest>>

\* terminate_session: the session that was removed is closed outside the lock,
\* and run returns (session.go:661)
terminateSession_CloseSession ==
    /\ ~panicked
    /\ Go("run", "closing", "exited")
    /\ DeviceSession_Close(LockSerial)
    /\ UNCHANGED <<ctrlVars, owner, inbound, accepted, applied, runPc, loopPc, seen,
                   expired, sent, timeouts, lockRest, mus, access>>

\* controller.go:313-315: the application calls GetDevices, which calls
\* c.mu.RLock()
GetDevices_Call ==
    /\ ~panicked
    /\ Go("app", "idle", "getdevices")
    /\ UNCHANGED <<mus, access, lockQuiet>>

\* controller.go:315: c.mu.RLock() returns
GetDevices_RLock ==
    /\ ~panicked
    /\ Go("app", "getdevices", "iterate")
    /\ RLockable("c")
    /\ mus' = RLock("c", "app")
    /\ UNCHANGED <<access, lockQuiet>>

\* controller.go:316-317: the map is iterated; for a session DeviceSnapshot is
\* called, which calls s.mu.Lock() (session.go:618)
GetDevices_Range ==
    /\ ~panicked
    /\ Go("app", "iterate", IF LockSerial \in sessions THEN "snapshot" ELSE "collected")
    /\ access' = Accessed("app", "map", "read", "GetDevices")
    /\ UNCHANGED <<mus, lockQuiet>>

\* session.go:618: s.mu.Lock() returns
DeviceSnapshot_Lock ==
    /\ ~panicked
    /\ Go("app", "snapshot", "copy")
    /\ Lockable("s")
    /\ mus' = Lock("s", "app")
    /\ UNCHANGED <<access, lockQuiet>>

\* session.go:619-620: the device is copied and the deferred Unlock runs
DeviceSnapshot_Copy ==
    /\ ~panicked
    /\ Go("app", "copy", "collected")
    /\ access' = Accessed("app", "device", "read", "DeviceSnapshot")
    /\ mus' = Unlock("s", "app")
    /\ UNCHANGED lockQuiet

\* controller.go:319: c.mu.RUnlock()
GetDevices_RUnlock ==
    /\ ~panicked
    /\ Go("app", "collected", "idle")
    /\ mus' = RUnlock("c", "app")
    /\ UNCHANGED <<access, lockQuiet>>

\* controller.go:303-304: the application calls Send, which calls c.mu.RLock()
lockSend_Call ==
    /\ ~panicked
    /\ Go("app", "idle", "send")
    /\ UNCHANGED <<mus, access, lockQuiet>>

\* controller.go:304: c.mu.RLock() returns
lockSend_RLock ==
    /\ ~panicked
    /\ Go("app", "send", "sending")
    /\ RLockable("c")
    /\ mus' = RLock("c", "app")
    /\ UNCHANGED <<access, lockQuiet>>

\* controller.go:305-309: the session is looked up, the message is handed to it
\* and the deferred RUnlock runs
lockSend_Lookup ==
    /\ ~panicked
    /\ Go("app", "sending", "idle")
    /\ access' = Accessed("app", "map", "read", "Send")
    /\ mus' = RUnlock("c", "app")
    /\ UNCHANGED lockQuiet

\* controller.go:250-251: Close sets the deadline of the connection and waits for
\* c.recvDone
lockClose_Deadline ==
    /\ ~panicked
    /\ Go("closer", "idle", "waiting")
    /\ deadlineSet' = TRUE
    /\ UNCHANGED <<sessions, cur, recvPc, recvDone, connClosed, onceOwner, onceDone,
                   closePc, visited, sessVars, panicked, lockRest, mus, access>>

\* controller.go:252-258: c.recvDone is closed; the sessions of the map are
\* iterated and closed
lockClose_Range ==
    /\ ~panicked
    /\ recvDone
    /\ Go("closer", "waiting", "clear")
    /\ access' = Accessed("closer", "map", "read", "Close")
    /\ IF LockSerial \in sessions
       THEN DeviceSession_Close(LockSerial)
       ELSE UNCHANGED <<panicked, done>>
    /\ UNCHANGED <<ctrlVars, owner, inbound, accepted, applied, runPc, loopPc, seen,
                   expired, sent, timeouts, lockRest, mus>>

\* controller.go:260: clear(c.sessions)
lockClose_Clear ==
    /\ ~panicked
    /\ Go("closer", "clear", "closed")
    /\ access' = Accessed("closer", "map", "write", "Close")
    /\ sessions' = {}
    /\ UNCHANGED <<cur, recvPc, recvDone, deadlineSet, connClosed, onceOwner, onceDone,
                   closePc, visited, sessVars, panicked, lockRest, mus>>

\* ------------------------------------------ DeviceSession.preflightHandshake
\* what the handshake leaves alone, the clock apart
hsRest == <<ctrlVars, sessVars, panicked, box, devLabel, devPoweredOn, devLastSeenAt,
            devVars, sendVars, apiVars, canvasVars, fxVars, msgVars, parseVars, lockVars,
            livVars, probeVars>>

\* the requests of a list
Range(s) == {s[k] : k \in 1..Len(s)}

\* session.go:756-767
requiredStateMessages ==
    <<"DeviceGetLabel", "DeviceGetVersion", "LightGet", "DeviceGetHostFirmware",
      "DeviceGetLocation", "DeviceGetGroup", "DeviceGetWifiInfo", "TileGetDeviceChain">>

\* session.go:769-780: the requests messageDoneFuncs has an entry for (LightGet
\* has none) ...
hasDoneFunc(m) == m # "LightGet"

\* ... and the entries
messageDoneFuncs(m, d) ==
    CASE m = "DeviceGetLabel" -> d.Label # ""
      [] m = "DeviceGetVersion" -> d.ProductID > 0
      [] m = "DeviceGetHostFirmware" -> d.FirmwareVersion # ""
      [] m = "DeviceGetLocation" -> d.Location # ""
      [] m = "DeviceGetGroup" -> d.Group # ""
      [] m = "DeviceGetWifiInfo" -> d.WifiRSSI # 0
      [] m = "TileGetDeviceChain" -> d.LightType # LightTypeMatrix \/ d.ChainLength > 0

\* session.go:734-738: the requests of the list that have an entry which does
\* not hold, in the order of the list
retryMsgs_All(req, d) == req

retryMsgs(req, d) == SelectSeq(req, LAMBDA m : hasDoneFunc(m) /\ ~messageDoneFuncs(m, d))

\* session_test.go:217, 245: the products a StateVersion frame names, one whose
\* registry entry has no matrix feature and one whose entry has it
ProductBulb == 225

ProductTile == 219

\* the frames the device answers with
HandshakeFrames ==
    {<<"DeviceStateLabel", 0>>, <<"DeviceStateVersion", ProductBulb>>,
     <<"DeviceStateVersion", ProductTile>>, <<"DeviceStateHostFirmware", 0>>,
     <<"DeviceStateLocation", 0>>, <<"DeviceStateGroup", 0>>, <<"DeviceStateWifiInfo", 0>>,
     <<"TileStateDeviceChain", 0>>}

\* session.go:677-700 and device.go:194-248: what a frame writes into the fields
\* the predicates read; a device names one product in all its StateVersion
\* frames, and its chain has one tile
ApplyFrame(d, f) ==
    CASE f[1] = "DeviceStateLabel" -> [d EXCEPT !.Label = "label"]
      [] f[1] = "DeviceStateVersion" ->
             [d EXCEPT !.ProductID = f[2],
                       !.LightType = IF f[2] = ProductTile THEN LightTypeMatrix ELSE @]
      [] f[1] = "DeviceStateHostFirmware" -> [d EXCEPT !.FirmwareVersion = "3.70"]
      [] f[1] = "DeviceStateLocation" -> [d EXCEPT !.Location = "location"]
      [] f[1] = "DeviceStateGroup" -> [d EXCEPT !.Group = "group"]
      [] f[1] = "DeviceStateWifiInfo" -> [d EXCEPT !.WifiRSSI = -60]
      [] f[1] = "TileStateDeviceChain" -> [d EXCEPT !.ChainLength = 1]

\* session.go:724-725: the list is not empty and Send is called with it (what
\* Send does with a list is followed by Send_Call and the steps after it); the
\* select that follows starts time.After(wait)
handshake_Send ==
    /\ ~panicked
    /\ pfPc = "send"
    /\ pfEnd = "none"
    /\ required # <<>>
    /\ round' = round + 1
    /\ lastSent' = required
    /\ pfPc' = "select"
    /\ pfWake' = now + cfgWait
    /\ UNCHANGED <<required, known, pfDeadline, cfgWait, hfAt, closed, sawClose, probes,
                   now, dv, lastPoll, found, pfEnd, hsRest>>

\* session.go:724: the list is empty, preflightHandshake returns
handshake_Empty ==
    /\ ~panicked
    /\ pfPc = "send"
    /\ pfEnd = "none"
    /\ round > 0
    /\ required = <<>>
    /\ pfEnd' = "empty"
    /\ pfPc' = "tickers"
    /\ UNCHANGED <<required, known, pfDeadline, pfWake, cfgWait, hfAt, closed, sawClose,
                   probes, now, dv, round, lastSent, lastPoll, found, hsRest>>

\* session.go:728-729: case <-s.done: return
handshake_Done ==
    /\ ~panicked
    /\ pfPc = "select"
    /\ round > 0
    /\ closed
    /\ pfEnd' = "done"
    /\ pfPc' = "tickers"
    /\ sawClose' = TRUE
    /\ UNCHANGED <<required, known, pfDeadline, pfWake, cfgWait, hfAt, closed, probes,
                   now, dv, round, lastSent, lastPoll, found, hsRest>>

\* session.go:730-741: case <-time.After(wait): under the read lock the entries
\* of the requests are evaluated and the list shrinks to the requests to retry
handshake_Poll ==
    /\ ~panicked
    /\ pfPc = "select"
    /\ round > 0
    /\ now >= pfWake
    /\ lastPoll' = {m \in Range(required) :
                        hasDoneFunc(m) /\ ~messageDoneFuncs(m, dv)}
    /\ found' = found \cup {m \in Range(required) :
                              hasDoneFunc(m) /\ messageDoneFuncs(m, dv)}
    /\ required' = retryMsgs(required, dv)
    /\ pfPc' = "check"
    /\ UNCHANGED <<known, pfDeadline, pfWake, cfgWait, hfAt, closed, sawClose, probes,
                   now, dv, round, lastSent, pfEnd, hsRest>>

\* session.go:744-751: after the poll, return when the deadline has passed,
\* otherwise go round again
handshake_Check ==
    /\ ~panicked
    /\ pfPc = "check"
    /\ round > 0
    /\ IF DeadlinePassed(now, pfDeadline)
       THEN pfEnd' = "deadline" /\ pfPc' = "tickers"
       ELSE pfEnd' = pfEnd /\ pfPc' = "send"
    /\ UNCHANGED <<required, known, pfDeadline, pfWake, cfgWait, hfAt, closed, sawClose,
                   probes, now, dv, round, lastSent, lastPoll, found, hsRest>>

\* session.go:600-602: the session is closed while the handshake runs
handshake_Close ==
    /\ ~panicked
    /\ pfPc \in {"send", "select", "check"}
    /\ ~closed
    /\ closed' = TRUE
    /\ UNCHANGED <<pfPc, required, known, pfDeadline, pfWake, cfgWait, hfAt, sawClose,
                   probes, now, hsVars, hsRest>>

\* session.go:671-708: while run waits in its select, recvloop applies a frame of
\* the device to s.device
handshake_Frame(f) ==
    /\ ~panicked
    /\ pfPc = "select"
    /\ f[1] = "DeviceStateVersion" => dv.ProductID \in {0, f[2]}
    /\ dv' = ApplyFrame(dv, f)
    /\ UNCHANGED <<preVars, now, round, lastSent, lastPoll, found, pfEnd, hsRest>>

\* ------------------------------------------- DeviceSession.run (liveness)
\* what the watchdog leaves alone, the clock and LastSeenAt apart
livRest == <<ctrlVars, sessVars, panicked, box, devLabel, devPoweredOn, devVars, sendVars,
            preVars, apiVars, canvasVars, fxVars, msgVars, parseVars, lockVars, hsVars,
            probeVars>>

\* the reading of the clock when the session is made: later than the zero
\* time.Time (0) by more than any timeout
ClockStart == 100

\* how long the clock is followed
MaxSpan == 8

\* cfg.deviceLivenessTimeout is 2, 4, .. 2 * MaxHalf
MaxHalf == 2

\* session.go:657: time.Since(last)
Since(last) == now - last

\* the later of two times
Later(a, b) == IF a > b THEN a ELSE b

\* session.go:635-640: preflightHandshake has returned and run makes its tickers;
\* the liveness ticker fires twice in a liveness window
liveness_NewTicker ==
    /\ ~panicked
    /\ livPc = "preflight"
    /\ livPc' = "loop"
    /\ livAt' = now + (livTimeout \div 2)
    /\ UNCHANGED <<livTimeout, createdAt, silence, now, devLastSeenAt, livRest>>

\* session.go:652-662: the liveness ticker has fired; LastSeenAt is read under the
\* read lock, and when it lies back by more than the timeout s.onTimeout is called
\* and run returns
liveness_Tick ==
    /\ ~panicked
    /\ livPc = "loop"
    /\ now >= livAt
    /\ IF Since(devLastSeenAt) > livTimeout
       THEN /\ silence' = now - Later(createdAt, devLastSeenAt)
            /\ livPc' = "exited"
            /\ livAt' = livAt
       ELSE /\ silence' = silence
            /\ livPc' = livPc
            /\ livAt' = livAt + (livTimeout \div 2)
    /\ UNCHANGED <<livTimeout, createdAt, now, devLastSeenAt, livRest>>

\* session.go:671-708: recvloop processes a frame of the device and sets
\* LastSeenAt (session.go:707)
liveness_Frame ==
    /\ ~panicked
    /\ livPc \in {"preflight", "loop"}
    /\ devLastSeenAt' = now
    /\ UNCHANGED <<livVars, now, livRest>>

\* time passes
liveness_Elapse ==
    /\ ~panicked
    /\ livPc \in {"preflight", "loop"}
    /\ now < ClockStart + MaxSpan
    /\ now' = now + 1
    /\ UNCHANGED <<livVars, devLastSeenAt, livRest>>

\* ------------------------------------------- Device.HighFreqStateMessages
\* device.go:310-321: the TileGet64 requests of a matrix device, one per tile of
\* the chain and state packet, with Rect.Y = uint8(j * 64 / Width)
TileGets ==
    [k \in 1..(mChainLength * mStatePackets) |->
        LET i == (k - 1) \div mStatePackets
            j == (k - 1) % mStatePackets
        IN  [TileIndex |-> Byte(i), Width |-> Byte(mWidth),
             Y |-> Byte(GoDiv(j * 64, mWidth))]]

\* device.go:318: the division is reached with Width = 0 - integer divide by zero
HighFreqPanics == mChainLength > 0 /\ mStatePackets > 0 /\ mWidth = 0

\* session.go:646-648, device.go:296-323: the high frequency ticker fires and run
\* builds the probe set of a device whose LightType is LightTypeMatrix
Device_HighFreqStateMessages ==
    /\ ~panicked
    /\ IF HighFreqPanics
       THEN panicked' = TRUE /\ probeSet' = probeSet
       ELSE panicked' = panicked /\ probeSet' = TileGets
    /\ UNCHANGED <<ctrlVars, sessVars, inboxVars, devVars, sendVars, preVars, apiVars,
                   canvasVars, fxVars, msgVars, parseVars, lockVars, hsVars, livVars>>

\* the TileStateDeviceChain frames a device sends
ProbeFrames == {<<"TileStateDeviceChain", p>> : p \in ChainPackets}

\* ------------------------------------------------- DeviceSession.Close
\* the session whose closing is followed
ClosedSessions == {"d1"}

\* session.go:600-602: the owner of the session closes it; both tasks wait on
\* s.done (a second Close is the matter of DeviceSession_Close)
closing_Close(i) ==
    /\ ~panicked
    /\ pfPc # "none"
    /\ ~closed
    /\ closed' = TRUE
    /\ DeviceSession_Close(i)
    /\ UNCHANGED <<ctrlVars, owner, inbound, accepted, applied, runPc, loopPc, seen,
                   expired, sent, timeouts, extraVars>>
    /\ UNCHANGED <<pfPc, required, known, pfDeadline, pfWake, cfgWait, hfAt, sawClose,
                   probes, inboxVars, devVars, sendVars>>

\* --------------------------------------------------------- specifications
\* the two tasks of a session, without the requests run sends
SessionTasks(i) ==
    \/ run_PreflightEnd(i)
    \/ run_Done(i)
    \/ run_Liveness(i)
    \/ sessionRecvloop_Process(i)
    \/ sessionRecvloop_Done(i)

\* the requests run sends
SessionSends(i) ==
    \/ run_PreflightSend(i)
    \/ run_Probe(i)

CloseNext(c) ==
    \/ Close_Do(c)
    \/ Close_AfterRecv(c)
    \/ \E s \in Serials : Close_Session(c, s)
    \/ Close_Clear(c)
    \/ Close_WaitDrained(c)
    \/ Close_WaitTimeout(c)

RecvNext ==
    \/ \E s \in Serials, k \in Kinds : recvloop_Handle(MaxFrames, s, k)
    \/ recvloop_Return
    \/ recvloop_Error

\* the controller with its sessions: discovery, routing, liveness, shutdown
Next ==
    \/ RecvNext
    \/ \E c \in AppCallers : Close_Call(c)
    \/ \E c \in Callers : CloseNext(c)
    \/ \E i \in Serials : SessionTasks(i)
    \/ \E i \in Serials : terminateSession_Remove(i)
    \/ \E i \in Serials : terminateSession_Close(i)
    \/ \E i \in Serials : Elapse(i)

Spec == Init /\ [][Next]_vars

\* a matrix device and the calls of its state-update functions, as the package's
\* device tests make them
NextMatrix ==
    \/ \E p \in ChainPackets : SetMatrixProperties(p)
    \/ \E p \in StatePackets : SetMatrixState(p)

SpecMatrix == Init /\ [][NextMatrix]_vars

\* a matrix device that is updated while the application holds a copy of it
\* (the frames are those of tiles of one row, written from their first zone)
NextSnapshot ==
    \/ \E p \in RowChainPackets : SetMatrixProperties(p)
    \/ \E p \in RowStatePackets : SetMatrixState(p)
    \/ DeviceSnapshot
    \/ \E k \in 1..MaxChain, j \in 1..MaxDim : Snapshot_Write(k, j, 1)

SpecSnapshot == Init /\ [][NextSnapshot]_vars

\* a session whose inbox the router fills and whose recvloop empties it
NextInbox ==
    \/ \E f \in InboxFrames : Inbox_Offer(f)
    \/ sessionRecvloop_Frame
    \/ Tick

SpecInbox == Init /\ [][NextInbox]_vars

\* a session whose Send the application and run call at the same time.  The
\* counter starts at zero, or stands shortly before the end of its 32 bits
InitSending ==
    /\ InitCore
    /\ InitExtra
    /\ InitInbox
    /\ InitDevice
    /\ InitPreflight
    /\ \E c0 \in {<<0, 0>>, <<65535, 65536 - MaxMsgs>>} : InitSendAt(c0)

NextSend ==
    \/ \E c \in Senders, n \in 1..MaxMsgs : Send_Call(c, n)
    \/ \E c \in Senders : nextSeq(c)
    \/ \E c \in Senders : Send_Sent(c)
    \/ \E c \in Senders : Send_Failed(c)
    \/ \E c \in Senders : Send_Return(c)

SpecSend == InitSending /\ [][NextSend]_vars

\* a session from the start of its preflight handshake, for every timeout and
\* wait of the bounds, with a device that answers or does not and an application
\* that closes the session or does not.  The scheduler runs run when it can and
\* time does not stand still
InitRun ==
    /\ InitCore
    /\ InitExtra
    /\ InitInbox
    /\ InitDevice
    /\ InitSend
    /\ \E timeout \in 0..MaxTimeout, wait \in 0..MaxWait : InitPreflightAt(timeout, wait)

NextRun ==
    \/ preflightHandshake_Send
    \/ preflightHandshake_Empty
    \/ preflightHandshake_Done
    \/ preflightHandshake_Poll
    \/ preflightHandshake_Check
    \/ run_NewTickers
    \/ run_SelectDone
    \/ run_SelectTicker
    \/ Session_Close
    \/ \E m \in MessageDoneFuncs : Device_Answer(m)
    \/ Timers_Elapse

SpecRun == InitRun /\ [][NextRun]_vars /\ WF_vars(RunStep) /\ WF_vars(Timers_Elapse)

\* a controller that discovers devices while the application calls Send
NextApi ==
    \/ \E s \in Serials, k \in Kinds : recvloop_Handle(MaxFrames, s, k)
    \/ \E s \in Serials, fails \in BOOLEAN : Controller_Send(s, fails)

SpecApi == Init /\ [][NextApi]_vars

\* a canvas that is made, painted and flattened
NextCanvas ==
    \/ \E w \in 1..MaxSide, h \in 1..MaxSide : Matrix_New(w, h, 0)
    \/ \E x \in 0..(MaxSide - 1), y \in 0..(MaxSide - 1), c \in Paints :
           Matrix_SetPixel(x, y, c)
    \/ Matrix_FlattenColors

SpecCanvas == Init /\ [][NextCanvas]_vars

\* an effect that runs on a matrix, its sends failing or being stopped at any turn
NextEffects ==
    \/ \E s \in FxSizes, l \in 0..MaxFxChain : Matrix_New(s[1], s[2], l)
    \/ \E c \in FxCalls, mode \in ChainModes, cycles \in 0..MaxCycles :
           Effect_Start(c, mode, cycles)
    \/ \E fails \in BOOLEAN : Effect_Step(fails)
    \/ Effect_Stop

SpecEffects == Init /\ [][NextEffects]_vars

\* the builders of package messages, called with lists of every length
NextMessages ==
    \/ \E s \in 0..MaxStart, n \in 0..MaxColors, d \in {0, 1} :
           Messages_SetMultizoneExtendedColors(s, n, d)
    \/ \E s \in 0..MaxStart, w \in {8, 16}, n \in 0..MaxColors :
           Messages_SetMatrixColorsFromSlice(s, 1, w, n, 1)

SpecMessages == Init /\ [][NextMessages]_vars

\* the parsers of package matrix, called with every small integer
NextParse ==
    \/ \E m \in (-MaxParseInt)..MaxParseInt : Matrix_ParseChainMode(m)
    \/ \E m \in (-MaxParseInt)..MaxParseInt : Matrix_ParseAnimationDirection(m)

SpecParse == Init /\ [][NextParse]_vars

\* a controller with one device: the router, the two tasks of the session, an
\* application that calls GetDevices and Send, and one that calls Close
NextLocks ==
    \/ route_Frame
    \/ route_RLock
    \/ \E stateService \in BOOLEAN : route_Lookup(stateService)
    \/ addSession_New
    \/ addSession_Lock
    \/ addSession_Insert
    \/ route_Return
    \/ lockRecv_Frame
    \/ lockRecv_Lock
    \/ lockRecv_Apply
    \/ lockRecv_Done
    \/ lockRun_Wait
    \/ lockRun_PollRLock
    \/ \E ended \in BOOLEAN : lockRun_Poll(ended)
    \/ lockRun_PreflightDone
    \/ lockRun_Done
    \/ lockRun_HighFreq
    \/ lockRun_LowFreq
    \/ lockRun_LivenessTick
    \/ lockRun_LivenessRLock
    \/ \E alive \in BOOLEAN : lockRun_Liveness(alive)
    \/ terminateSession_Lock
    \/ terminateSession_Delete
    \/ terminateSession_CloseSession
    \/ GetDevices_Call
    \/ GetDevices_RLock
    \/ GetDevices_Range
    \/ DeviceSnapshot_Lock
    \/ DeviceSnapshot_Copy
    \/ GetDevices_RUnlock
    \/ lockSend_Call
    \/ lockSend_RLock
    \/ lockSend_Lookup
    \/ lockClose_Deadline
    \/ lockClose_Range
    \/ lockClose_Clear

SpecLocks == Init /\ [][NextLocks]_vars

\* a session from the start of its preflight handshake, with a device that
\* answers some requests, late or never, and an application that may close the
\* session
InitHandshaking ==
    /\ InitCore
    /\ InitExtra
    /\ InitInbox
    /\ InitDevice
    /\ InitSend
    /\ \E timeout \in 1..MaxTimeout, wait \in 1..MaxWait : InitHandshakeAt(timeout, wait)

NextHandshake ==
    \/ handshake_Send
    \/ handshake_Empty
    \/ handshake_Done
    \/ handshake_Poll
    \/ handshake_Check
    \/ handshake_Close
    \/ \E f \in HandshakeFrames : handshake_Frame(f)
    \/ Timers_Elapse

SpecHandshake == InitHandshaking /\ [][NextHandshake]_vars

\* a session from its creation, for every liveness timeout of the bounds, with a
\* device that answers at some times or never
InitLiveness ==
    /\ InitCore
    /\ InitDevice
    /\ InitSend
    /\ InitPreflight
    /\ InitApi /\ InitCanvas /\ InitFx /\ InitMsgs /\ InitParse
    /\ InitLocks /\ InitHandshake /\ InitProbe
    /\ box = <<>>
    /\ devLabel = 0
    /\ devPoweredOn = FALSE
    /\ now = ClockStart
    /\ devLastSeenAt = 0
    /\ livPc = "preflight"
    /\ livAt = 0
    /\ livTimeout \in {2 * k : k \in 1..MaxHalf}
    /\ createdAt = ClockStart
    /\ silence = -1

NextLiveness ==
    \/ liveness_NewTicker
    \/ liveness_Tick
    \/ liveness_Frame
    \/ liveness_Elapse

SpecLiveness == InitLiveness /\ [][NextLiveness]_vars

\* a session of a matrix device: the router fills its inbox with chain frames,
\* recvloop applies them and run builds the high frequency probe set
NextProbe ==
    \/ \E f \in ProbeFrames : Inbox_Offer(f)
    \/ sessionRecvloop_Frame
    \/ Device_HighFreqStateMessages

SpecProbe == Init /\ [][NextProbe]_vars

\* a session of an application from its creation, with the longest handshake
\* timeout of the bounds and no wait or the longest: run is followed through the
\* handshake and the refresh loop by pfPc, recvloop by loopPc; the application
\* puts frames into the inbox and closes the session at any moment.  The
\* scheduler runs a task that can run, select takes a case that stays ready, and
\* time does not stand still
InitClosing ==
    /\ InitController
    /\ owner = [i \in Serials |-> IF i \in ClosedSessions THEN "app" ELSE "none"]
    /\ done = [i \in Serials |-> FALSE]
    /\ inbound = [i \in Serials |-> <<>>]
    /\ accepted = [i \in Serials |-> 0]
    /\ applied = [i \in Serials |-> 0]
    /\ runPc = [i \in Serials |-> "none"]
    /\ loopPc = [i \in Serials |-> IF i \in ClosedSessions THEN "run" ELSE "none"]
    /\ seen = [i \in Serials |-> FALSE]
    /\ expired = [i \in Serials |-> FALSE]
    /\ sent = [i \in Serials |-> 0]
    /\ timeouts = [i \in Serials |-> 0]
    /\ InitExtra
    /\ InitInbox
    /\ InitDevice
    /\ InitSend
    /\ \E wait \in {0, MaxWait} : InitPreflightAt(MaxTimeout, wait)

NextClosing ==
    \/ preflightHandshake_Send
    \/ preflightHandshake_Empty
    \/ preflightHandshake_Done
    \/ preflightHandshake_Poll
    \/ preflightHandshake_Check
    \/ run_NewTickers
    \/ run_SelectDone
    \/ run_SelectTicker
    \/ \E m \in MessageDoneFuncs : Device_Answer(m)
    \/ Timers_Elapse
    \/ \E i \in ClosedSessions : App_Inject(i)
    \/ \E i \in ClosedSessions : sessionRecvloop_Process(i)
    \/ \E i \in ClosedSessions : sessionRecvloop_Done(i)
    \/ \E i \in ClosedSessions : closing_Close(i)

SpecClosing ==
    /\ InitClosing
    /\ [][NextClosing]_vars
    /\ WF_vars(RunStep)
    /\ WF_vars(run_SelectDone)
    /\ WF_vars(Timers_Elapse)
    /\ \A i \in ClosedSessions : WF_vars(sessionRecvloop_Done(i))

\* a multizone device and the calls of its state-update function
NextMultizone == \E p \in ZonePackets : SetMultizoneProperties(p)

SpecMultizone == Init /\ [][NextMultizone]_vars

\* the router under a burst of frames, the sessions draining their inboxes
NextRouter ==
    \/ \E s \in Serials, k \in Kinds : Receive_Read(MaxBurst, s, k)
    \/ Receive_Call
    \/ \E i \in Serials : sessionRecvloop_Process(i)

SpecRouter == Init /\ [][NextRouter]_vars

\* one session created by the application itself, as the package's session tests do
InitSession ==
    /\ InitAux
    /\ InitController
    /\ owner = [i \in Serials |-> IF i = "d1" THEN "app" ELSE "none"]
    /\ done = [i \in Serials |-> FALSE]
    /\ inbound = [i \in Serials |-> <<>>]
    /\ accepted = [i \in Serials |-> 0]
    /\ applied = [i \in Serials |-> 0]
    /\ runPc = [i \in Serials |-> IF i = "d1" THEN "preflight" ELSE "none"]
    /\ loopPc = [i \in Serials |-> IF i = "d1" THEN "run" ELSE "none"]
    /\ seen = [i \in Serials |-> FALSE]
    /\ expired = [i \in Serials |-> FALSE]
    /\ sent = [i \in Serials |-> 0]
    /\ timeouts = [i \in Serials |-> 0]

NextSession ==
    \/ \E i \in Serials : SessionTasks(i)
    \/ \E i \in Serials : SessionSends(i)
    \/ \E i \in Serials : onTimeout_Callback(i)
    \/ \E i \in Serials : App_Inject(i)
    \/ \E i \in Serials : App_SessionClose(i)
    \/ \E i \in Serials : Elapse(i)

SpecSession == InitSession /\ [][NextSession]_vars

\* ---------------------------------------------------------------- claims
\* a router step that has run the callback on the frame cur
Handled == cur # NoFrame /\ cur' = NoFrame

\* the steps by which a shutdown that has begun moves on
ShutdownStep == recvloop_Return \/ \E c \in Callers : CloseNext(c)

\* C1: DeviceSession.Close is idempotent - a session may be closed any number of
\* times and no call after the first faults.  Stated: once a session's done
\* channel is closed, no goroutine has panicked.
C1_SessionCloseIdempotent == \A i \in Serials : done[i] => ~panicked

\* C2: when the socket receive fails with an error other than a read timeout the
\* controller shuts itself down: the receive task ends and the shutdown sequence
\* runs to completion.  Stated: while the receive task is inside the Close call it
\* made on the error, the shutdown has a step it can take.
C2_FatalErrorShutsDown == (recvPc = "close" /\ ~panicked) => ENABLED ShutdownStep

\* callers of Close that are inside the function of closeOnce.Do
InSequence == {c \in Callers : closePc[c] \in {"waitRecv", "sessions", "wait"}}

C3_Inv ==
    /\ connClosed <= 1
    /\ Cardinality(InSequence) <= 1
    /\ \A c \in Callers : closePc[c] = "returned" =>
          onceDone /\ deadlineSet /\ recvDone /\ connClosed = 1 /\ sessions = {}

C3_Step ==
    /\ onceDone => UNCHANGED <<deadlineSet, recvDone, connClosed, sessions, visited, onceDone>>
    /\ \A i \in Serials : (i \in visited' /\ i \notin visited) => onceOwner \in Callers

\* C3: Controller.Close is idempotent - for any number of calls, sequential or
\* concurrent, the shutdown sequence is performed exactly once (one caller at a
\* time inside it, the socket closed once, every return after a full sequence)
\* and the calls that come after it change nothing.
C3_CloseOnce == []C3_Inv /\ [][C3_Step]_vars

\* two calls have returned, one of which ran the sequence
C3_Witness ==
    /\ closePc["app1"] = "returned"
    /\ closePc["app2"] = "returned"
    /\ connClosed = 1
    /\ \E i \in Serials : done[i]

C4_Inv ==
    /\ \A c \in Callers : closePc[c] \in {"sessions", "wait"} => recvPc = "exited"
    /\ \A i \in Serials : (i \in visited) => recvPc = "exited"
    /\ onceDone => /\ sessions = {}
                   /\ \A i \in Serials :
                         (owner[i] = "controller" /\ runPc[i] # "terminate") => done[i]

C4_Step ==
    recvPc = "exited" =>
        /\ sessions' \subseteq sessions
        /\ \A i \in Serials : runPc'[i] = "preflight" => runPc[i] = "preflight"

\* C4: Controller.Close closes sessions only after the receive task has exited;
\* when Close has returned every session of the controller that is not already
\* being terminated has been signalled to close and the map is empty, and after
\* the receive task's exit no session is created or registered.
C4_CloseAfterReceive == []C4_Inv /\ [][C4_Step]_vars

\* Close has returned with two sessions closed by it
C4_Witness ==
    /\ closePc["app1"] = "returned"
    /\ ~panicked
    /\ \A i \in Serials : owner[i] = "controller" /\ done[i] /\ runPc[i] # "terminate"

\* C5: Controller.Close always returns.  Stated: as long as a call of Close has
\* not returned (and no goroutine has panicked), the shutdown has a step it can
\* take - the wait for the sessions included, which ends by the timeout when a
\* run task has not reported completion.
C5_CloseAlwaysReturns ==
    \A c \in Callers :
        (closePc[c] \notin {"idle", "returned"} /\ ~panicked) => ENABLED ShutdownStep

C6_Step ==
    /\ \A s \in Serials :
          (s \in sessions' /\ s \notin sessions) =>
              Handled /\ cur = <<s, "StateServiceUDP">>
    /\ \A s \in Serials :
          (Handled /\ cur[1] = s /\ s \notin sessions) =>
              IF cur[2] = "StateServiceUDP"
              THEN /\ sessions' = sessions \cup {s}
                   /\ owner'[s] = "controller"
                   /\ runPc'[s] = "preflight" /\ loopPc'[s] = "run"
                   /\ inbound'[s] = <<>> /\ ~done'[s]
              ELSE UNCHANGED <<sessions, sessVars>>

\* C6: a session is created if and only if a DeviceStateService frame whose service
\* is UDP arrives for a serial that has no session; every other frame for a serial
\* without session changes nothing, and no step but the router's creates one.
C6_SessionIffStateServiceUDP == [][C6_Step]_vars

\* both devices were discovered
C6_Witness == sessions = Serials /\ cur = NoFrame

\* C7: the router never blocks on a session - the callback can always run on the
\* frame that was read, and when the inbox of the frame's session already holds
\* its 10 frames the frame is dropped: the callback returns and the inbox is as
\* before.
C7_Inv == cur # NoFrame => ENABLED Receive_Call

C7_Step ==
    \A s \in Serials :
        (Handled /\ cur[1] = s /\ s \in sessions
              /\ Len(inbound[s]) = defaultRecvBufferSize) =>
            /\ inbound' = inbound
            /\ accepted' = accepted

C7_RouterNeverBlocks == []C7_Inv /\ [][C7_Step]_vars

\* a frame for a session whose inbox is full is in the hands of the callback
C7_Witness ==
    /\ cur # NoFrame
    /\ cur[1] \in sessions
    /\ cur[2] = "State"
    /\ Len(inbound[cur[1]]) = defaultRecvBufferSize

\* the frames of an inbox are the ones accepted and not yet applied, in the
\* router's order
InOrder(i) == inbound[i] = [j \in 1..(accepted[i] - applied[i]) |-> applied[i] + j]

C8_Step ==
    \A i \in Serials :
        applied'[i] # applied[i] =>
            /\ applied'[i] = applied[i] + 1
            /\ inbound'[i] = Tail(inbound[i])

\* C8: frames accepted into one session's inbox are applied one at a time in the
\* order the router received them - the inbox holds the accepted frames that
\* are not applied yet in that order, and each application takes the next one.
C8_FifoPerInbox == [](\A i \in Serials : InOrder(i)) /\ [][C8_Step]_vars

\* several frames were applied while others wait in the inbox
C8_Witness == \E i \in Serials : applied[i] >= 3 /\ Len(inbound[i]) >= 2

C9_Step ==
    \A s \in Serials :
        (Handled /\ cur[1] = s /\ s \in sessions
              /\ Len(inbound[s]) < defaultRecvBufferSize) =>
            /\ accepted'[s] = accepted[s] + 1
            /\ inbound'[s] = Append(inbound[s], accepted'[s])

\* C9: every frame that arrives for a serial with a session is offered to that
\* session's inbox whatever its payload.  Stated: when the callback has run on a
\* frame whose serial has a session with room in its inbox, the frame is in the
\* inbox.
C9_EveryFrameOffered == [][C9_Step]_vars

C10_Inv ==
    \A i \in Serials :
        /\ timeouts[i] <= 1
        /\ (runPc[i] = "loop" /\ expired[i] /\ ~panicked) => ENABLED run_Liveness(i)
        /\ runPc[i] = "onTimeout" => timeouts[i] = 1

C10_Step ==
    \A i \in Serials :
        /\ timeouts'[i] # timeouts[i] => LivenessExpired(i) /\ runPc'[i] = "onTimeout"
        /\ timeouts[i] >= 1 => /\ sent'[i] = sent[i]
                               /\ runPc'[i] \in {"onTimeout", "exited"}
                               /\ timeouts'[i] = timeouts[i]

Terminated(i) ==
    owner[i] = "controller" /\ timeouts[i] = 1 /\ runPc[i] \in {"terminate", "exited"}

C11_Inv ==
    \A i \in Serials :
        Terminated(i) =>
            /\ i \notin GetDevices
            /\ ~Send_HasSession(i)
            /\ (recvPc = "receive" /\ ObjectFree(i) /\ ~panicked) =>
                   ENABLED recvloop_Handle(MaxFrames, i, "StateServiceUDP")

C11_Step ==
    \A i \in Serials :
        (Terminated(i) /\ i \in sessions') =>
            /\ recvPc = "receive"
            /\ runPc'[i] = "preflight" /\ loopPc'[i] = "run"
            /\ ~done'[i] /\ ~seen'[i] /\ inbound'[i] = <<>> /\ timeouts'[i] = 0

\* C11: after a session is terminated the controller forgets the device -
\* GetDevices does not list the serial, Send to it reaches no session - and the
\* next DeviceStateService/UDP frame of the serial creates a fresh session.
C11_ForgottenThenRediscovered == []C11_Inv /\ [][C11_Step]_vars

\* a terminated session is gone from the map, its tasks have returned and the
\* receive task can take the frame that discovers the device again
C11_Witness ==
    /\ Terminated("d1") /\ ObjectFree("d1") /\ done["d1"]
    /\ "d1" \notin sessions
    /\ recvPc = "receive" /\ ~deadlineSet
    /\ ENABLED recvloop_Handle(MaxFrames, "d1", "StateServiceUDP")

\* C18: after any sequence of SetMatrixProperties calls ChainZones has exactly
\* ChainLength elements and every element has exactly NZones = Width * Height
\* entries.
C18_ChainZonesShape ==
    /\ Len(chainZones) = mChainLength
    /\ mNZones = mWidth * mHeight
    /\ \A k \in 1..Len(chainZones) : Len(chainZones[k]) = mNZones

\* the frame p is out of range: its tile is none of the tiles, or Rect.Y * Width
\* as an integer is below neither NZones nor the length of the tile's array
StateOutOfRange(p) ==
    \/ p.TileIndex >= Len(chainZones)
    \/ /\ p.Y * mWidth >= mNZones
       /\ p.Y * mWidth >= Len(chainZones[p.TileIndex + 1])

C19_Step ==
    \A p \in StatePackets :
        (call' = <<"SetMatrixState", p>> /\ StateOutOfRange(p)) =>
            updated' = FALSE /\ chainZones' = chainZones

\* C19: SetMatrixState returns false and writes nothing whenever the frame is out
\* of range - TileIndex not below the number of tiles, or Rect.Y * Width, taken as
\* a mathematical integer, not below NZones.
C19_OutOfRangeRejected == [][C19_Step]_vars

C20_Step ==
    \A p \in ZonePackets :
        (call' = <<"SetMultizoneProperties", p>> /\ (p.Count = 0 \/ p.Index >= p.Count)) =>
            updated' = FALSE /\ zones' = zones

\* C20: whenever SetMultizoneProperties rejects a frame because Count = 0 or
\* Index >= Count it returns false and leaves Zones as they were, same length and
\* same contents.
C20_RejectedLeavesZones == [][C20_Step]_vars

\* the calls that update the device of the session
DeviceUpdates == {"SetMatrixProperties", "SetMatrixState", "SetMultizoneProperties"}

C17_Step ==
    (snapTaken /\ call' # <<"DeviceSnapshot">>) =>
        /\ call'[1] \in DeviceUpdates =>
               /\ snapProps' = snapProps
               /\ snapChain' = snapChain
               /\ snapZones' = snapZones
        /\ call'[1] = "Snapshot_Write" =>
               /\ chainZones' = chainZones
               /\ zones' = zones

\* C17: the value DeviceSnapshot returns is an independent copy, the arrays of the
\* tiles and of the zones included - no later update of the session's device shows
\* in it, and no write to it shows in the session's device.
C17_SnapshotIndependent == [][C17_Step]_vars

C12_Step == (box # <<>> /\ box' = Tail(box)) => devLastSeenAt' = now

\* C12: every frame recvloop takes from the inbox - handled, ignored
\* (StateService, StateUnhandled) or unknown - sets LastSeenAt to the time of its
\* processing.
C12_EveryFrameTouchesLastSeen == [][C12_Step]_vars

C13_Step ==
    \A c \in Senders :
        (sendPc[c] # "idle" /\ sendPc'[c] = "idle") =>
            /\ attempted'[c] = [k \in 1..sendN[c] |-> k]
            /\ sendErr'[c] = sendFailed'[c]

\* C13: a call of DeviceSession.Send with n messages hands every one of them to
\* the sender exactly once, in order, also when the sender failed on an earlier
\* one, and returns an error when some attempt failed.
C13_EveryMessageAttempted == [][C13_Step]_vars

C14_Step ==
    stamps' = stamps + 1 =>
        LET v == Uint8(seq')
        IN  /\ v = (Uint8(seq) + 1) % 256
            /\ lastAt'[v] = stamps'
            /\ lastAt[v] # 0 => stamps' - lastAt[v] >= 256

\* C14: the sequence number of a message is that of the message stamped before it
\* plus one, modulo 256, and a sequence number is handed out again only 256 or
\* more stamps after it was handed out last - with the application and run
\* calling Send at the same time.
C14_SequenceWraps == [][C14_Step]_vars

\* a sequence number has come round again while both callers were inside Send,
\* each holding a stamped message
C14_Witness ==
    /\ stamps >= 257
    /\ \A c \in Senders : sendPc[c] = "send"
    /\ lastAt[Uint8(seq)] = stamps

\* run is inside preflightHandshake
InPreflight == pfPc \in {"send", "select", "check"}

C15_Step ==
    /\ (pfPc = "send" /\ pfPc' # "send") => (pfPc' = "tickers" <=> required = <<>>)
    /\ (pfPc = "check" /\ pfPc' # "check") => (pfPc' = "tickers" <=> now > pfDeadline)
    /\ (InPreflight /\ ~InPreflight') => pfPc' = "tickers"

\* C15: the preflight handshake always ends - it returns when the list of required
\* requests is empty, otherwise at the first poll after which the deadline has
\* passed, also when the device answers nothing - and run then starts the refresh
\* loop.
C15_PreflightEnds == [][C15_Step]_vars /\ <>(pfPc = "loop")

\* the handshake has timed out on a device that answered nothing and the refresh
\* loop has started with requests still unanswered
C15_Witness ==
    /\ pfPc = "loop"
    /\ known = {}
    /\ required # <<>>
    /\ now > pfDeadline
    /\ ~closed

C16_Step == sawClose => (pfPc' # "loop" /\ probes' = probes)

\* C16: once preflightHandshake has seen the session closed, run exits without
\* entering the refresh loop and sends no request any more.
C16_CloseAbandonsPreflight == [][C16_Step]_vars

\* the zones of a strip after the fragment p: those from Index on, ColorsCount of
\* them and not beyond the strip, take the colours of p, the others stay
ZonesAssembled(z, p) ==
    [j \in 1..Len(z) |->
        IF j > p.Index /\ j <= p.Index + p.ColorsCount THEN ZoneColor(p, j - 1 - p.Index)
        ELSE z[j]]

C21_Step ==
    \A p \in ZonePackets :
        (call' = <<"SetMultizoneProperties", p>> /\ Len(zones) = p.Count /\ updated') =>
            zones' = ZonesAssembled(zones, p)

\* C21: a frame SetMultizoneProperties accepts for a strip whose zone count is
\* unchanged overwrites exactly the zones Index .. Index + ColorsCount - 1, cut off
\* at Count, with the first ColorsCount colours of the frame and leaves every other
\* zone as it was, so that the fragments of a strip assemble the same zones in any
\* order.
C21_FragmentWritesItsZones == [][C21_Step]_vars

C22_Step ==
    (box # <<>> /\ box' = Tail(box) /\ Head(box)[1] = "MultiZone") =>
        LET p == Head(box)[2]
        IN  /\ Len(zones') = p.Count
            /\ zones'[p.Index + 1] = p.Color

\* C22: when recvloop has processed a MultiZoneExtendedStateMultiZone frame the
\* zones of the device are those SetMultizoneProperties makes of it, so a snapshot
\* taken afterwards shows the colours the frame reports.
C22_MultizoneFrameApplied == [][C22_Step]_vars

C28_Step ==
    (apiSends' = apiSends + 1 /\ apiLast' \notin sessions) =>
        /\ apiErr' = FALSE
        /\ wire' = wire
        /\ sessions' = sessions
        /\ UNCHANGED sessVars

\* C28: Controller.Send for a serial that has no session returns nil, puts nothing
\* on the socket and creates no session.
C28_SendWithoutSession == [][C28_Step]_vars

\* Send was called for a serial without a session while another device has one,
\* and nothing went out for it
C28_Witness ==
    /\ apiSends > 0
    /\ apiLast \in Serials \ sessions
    /\ sessions # {}
    /\ wire[apiLast] = 0
    /\ ~apiErr

\* C30: FlattenColors lays the canvas out row-major for every matrix of at most 64
\* cells, square or not: the colour of cell (x, y) is at index y*width + x, distinct
\* cells never share an index, and all remaining entries are zero.
C30_RowMajor ==
    (flat # <<>> /\ mx.Width * mx.Height <= TileColorsLen) =>
        /\ \A y \in 0..(mx.Height - 1), x \in 0..(mx.Width - 1) :
               flat[y * mx.Width + x + 1] = mx.Colors[y][x]
        /\ \A i \in (mx.Width * mx.Height + 1)..TileColorsLen : flat[i] = 0

\* C23: once the stop flag that SendWithStop returned is set, a running effect makes no
\* further call of the underlying send, and it returns ErrStopped at its next call of
\* send, whatever the effect, the chain mode and the cycles.
C23_Step ==
    (stopped /\ fxAttempts' # fxAttempts) =>
        (fxLog' = fxLog /\ fxPc' = "returned" /\ fxErr' = "ErrStopped")

C23_StoppedEffectReturns == [][C23_Step]_vars

\* C24: when the send function fails on a frame, the effect stops at once, with no
\* later frame, tile or cycle, and returns that error.
C24_Step ==
    (fxAttempts' # fxAttempts /\ fxSendErr' = "ErrSend") =>
        (fxPc' = "returned" /\ fxErr' = "ErrSend")

C24_SendErrorReturned == [][C24_Step]_vars

\* the sends of one body: the turns of its loops
BodyFrames == MainFrames(mx) + TailFrames

\* the k-th message follows its predecessor in the same body, or starts the body of
\* tile ti after a body that was sent in full or was cut short by a failed send
InBodyOrder(k, ti) ==
    LET e == fxLog[k]
    IN IF k = 1
       THEN e.frame = 0 /\ e.msg.TileIndex = 0
       ELSE LET a == fxLog[k - 1]
            IN \/ e.frame = a.frame + 1 /\ e.msg.TileIndex = a.msg.TileIndex
               \/ /\ e.frame = 0
                  /\ a.ok => a.frame = BodyFrames - 1
                  /\ e.msg.TileIndex = ti

FramePackets(n) == 1 + ((n - 1) \div TileColorsLen)

\* C26: for a matrix of more than 64 zones every frame of every effect is sent as
\* state_packets TileSet64 messages to framebuffer 1 with duration 0 and
\* rect.y = p*64/width for p = 0, 1, ..., then exactly one TileCopyFrameBuffer from
\* framebuffer 1 to 0 with the width, the height and the duration; no TileSet64 of
\* such a matrix is written to framebuffer 0.
C26_LargeMatrixFrames ==
    Size(mx) > TileColorsLen =>
        \A k \in DOMAIN fxLog :
            LET e == fxLog[k].msg
                p == (k - 1) % (FramePackets(Size(mx)) + 1)
            IN IF p < FramePackets(Size(mx))
               THEN /\ e.type = "TileSet64"
                    /\ e.FbIndex = 1
                    /\ e.Duration = 0
                    /\ e.Y = (p * TileColorsLen) \div mx.Width
               ELSE /\ e.type = "TileCopyFrameBuffer"
                    /\ e.DstFbIndex = 0
                    /\ e.SrcFbIndex = 1
                    /\ e.Width = mx.Width
                    /\ e.Height = mx.Height
                    /\ e.Duration = minInterval

\* C27: Waterfall and Rockets called with an empty palette return ErrMissingColors
\* and send no frame.
C27_MissingColors ==
    (fxPc # "idle" /\ fx.kind \in {"Waterfall", "Rockets"} /\ fx.colors = <<>>) =>
        /\ ~panicked
        /\ fxAttempts = 0
        /\ fxLog = <<>>
        /\ fxPc = "returned" => fxErr = "ErrMissingColors"

\* a message that makes the device apply colours: its own or the buffered ones
Applies(m) == m.Apply \in {"APPLY", "APPLY_ONLY"}

\* the i-th message carries the colours of the list from offset on, count of them
CarriesChunk(m, n, offset, count) ==
    /\ m.ColorsCount = count
    /\ SubSeq(m.Colors, 1, count) = SubSeq(ColorList(n), offset + 1, offset + count)

\* the messages of a list of n > 82 colours from startIndex on: ceil(n/82) buffering
\* messages, the i-th from zone startIndex + 82*i on, and one that triggers the apply
ChunkedAndApplied(startIndex, n) ==
    LET c == (n + extendedMultizoneMsgMaxZones - 1) \div extendedMultizoneMsgMaxZones
    IN /\ Len(msgs) = c + 1
       /\ \A i \in 0..(c - 1) :
              /\ msgs[i + 1].Index = startIndex + extendedMultizoneMsgMaxZones * i
              /\ CarriesChunk(msgs[i + 1], n, extendedMultizoneMsgMaxZones * i,
                              Min(extendedMultizoneMsgMaxZones,
                                  n - extendedMultizoneMsgMaxZones * i))
              /\ ~Applies(msgs[i + 1])
       /\ Applies(msgs[c + 1])
       /\ msgs[c + 1].ColorsCount = 0

\* C29 as stated: SetMultizoneExtendedColors for N colours returns, when N <= 82, one
\* message with all N colours and Apply = APPLY; when N > 82, ceil(N/82) buffering
\* messages, chunk i from zone start + 82*i on with at most 82 colours, none of which
\* applies, and then one final message that triggers the apply.
C29_Original ==
    (built # <<>> /\ built[1] = "SetMultizoneExtendedColors") =>
        IF built[3] <= extendedMultizoneMsgMaxZones
        THEN /\ Len(msgs) = 1
             /\ CarriesChunk(msgs[1], built[3], 0, built[3])
             /\ msgs[1].Apply = "APPLY"
        ELSE ChunkedAndApplied(built[2], built[3])

\* C29, amended: for 1 <= N <= 82 one message with all N colours and Apply = APPLY;
\* for N > 82 the buffering messages and the final one as stated; for N = 0 only the
\* final message, which has no colours and Apply = APPLY_ONLY.
C29_ExtendedColorsChunked ==
    (built # <<>> /\ built[1] = "SetMultizoneExtendedColors") =>
        IF built[3] = 0
        THEN /\ Len(msgs) = 1
             /\ msgs[1].ColorsCount = 0
             /\ msgs[1].Apply = "APPLY_ONLY"
        ELSE IF built[3] <= extendedMultizoneMsgMaxZones
        THEN /\ Len(msgs) = 1
             /\ msgs[1].Index = built[2]
             /\ CarriesChunk(msgs[1], built[3], 0, built[3])
             /\ msgs[1].Apply = "APPLY"
        ELSE ChunkedAndApplied(built[2], built[3])

\* a list of 165 colours from zone 1 on was turned into messages
C29_Witness ==
    /\ built = <<"SetMultizoneExtendedColors", 1, 165, 1>>
    /\ Len(msgs) = 4
    /\ msgs[3].Index = 165
    /\ msgs[3].ColorsCount = 1

\* C31: ParseChainMode maps 0 to None, 1 to Sequential and 2 to Synced, and every
\* other integer to None.
C31_ParseChainMode ==
    (parsed # <<>> /\ parsed[1] = "ParseChainMode") =>
        parsed[3] = (IF parsed[2] = 1 THEN "Sequential"
                     ELSE IF parsed[2] = 2 THEN "Synced" ELSE "None")

\* C32: ParseAnimationDirection maps 0 to Inwards, 1 to Outwards, 2 to InOut and 3 to
\* OutIn, and every other integer to Inwards.
C32_ParseAnimationDirection ==
    (parsed # <<>> /\ parsed[1] = "ParseAnimationDirection") =>
        parsed[3] = (IF parsed[2] = 1 THEN "Outwards"
                     ELSE IF parsed[2] = 2 THEN "InOut"
                     ELSE IF parsed[2] = 3 THEN "OutIn" ELSE "Inwards")

\* C33: a session's mutable device state is written only by its recv task while
\* it holds the session's write lock, and every read of it by another task - a
\* snapshot, a preflight poll, the liveness check, the construction of the high
\* and the low frequency probe sets - is made while holding the session lock.
C33_DeviceStateUnderLock ==
    access.obj = "device" =>
        /\ access.op = "write" => access.task = "recv" /\ access.mode = "W"
        /\ access.op = "read" => access.mode # "none"

\* task t is inside a lock call that cannot return in this state
Blocked(t) ==
    LET w == Wants(t) IN
    /\ w[1] # "none"
    /\ IF w[2] = "R" THEN ~RLockable(w[1]) ELSE ~Lockable(w[1])

\* the tasks whose holding or waiting keeps the lock call of t from returning
Blockers(t) ==
    LET w == Wants(t) IN
    IF w[1] = "none" THEN {}
    ELSE ({mus[w[1]].w} \ {"none"})
         \cup (IF w[2] = "W" THEN mus[w[1]].r ELSE PendingW(w[1]))

\* some tasks wait for one another: each of them is blocked by one of them
Deadlocked ==
    \E S \in SUBSET LockTasks :
        /\ S # {}
        /\ \A t \in S : Blocked(t) /\ Blockers(t) \cap S # {}

\* C36: the session-map lock and the device lock are never acquired in
\* conflicting orders: no task is inside a lock call of the map lock while it
\* holds the device lock, and no set of tasks wait for one another, whatever the
\* interleaving of GetDevices, Send, routing, the liveness termination and Close.
C36_NoLockCycle ==
    /\ \A t \in LockTasks : Wants(t)[1] = "c" => Held("s", t) = "none"
    /\ ~Deadlocked

\* GetDevices holds the map lock and waits for the device lock, which recvloop
\* holds, while the liveness termination waits for the map lock
C36_Witness ==
    /\ tpc["app"] = "snapshot"
    /\ Held("c", "app") = "R"
    /\ Held("s", "recv") = "W"
    /\ tpc["run"] = "onTimeout"
    /\ Blocked("app")
    /\ Blocked("run")

\* C37: every read, insertion, removal and iteration of the session map, the
\* iteration and the clearing of Close included, happens while the controller's
\* lock is held in the matching mode: for reading or writing when the map is
\* read, for writing when it is changed.
C37_MapUnderLock ==
    access.obj = "map" =>
        /\ access.op = "read" => access.mode \in {"R", "W"}
        /\ access.op = "write" => access.mode = "W"

\* C34: if the preflight handshake ends because its required set became empty
\* (not because of the deadline or a close), every fulfilment predicate holds on
\* the device at that moment: label, location, group and firmware version are
\* not empty, the product id is above 0, the RSSI is not 0, and the device is not
\* a matrix or its chain length is above 0.
C34_EmptyMeansFulfilled ==
    pfEnd = "empty" =>
        /\ dv.Label # ""
        /\ dv.Location # ""
        /\ dv.Group # ""
        /\ dv.FirmwareVersion # ""
        /\ dv.ProductID > 0
        /\ dv.WifiRSSI # 0
        /\ (dv.LightType # LightTypeMatrix \/ dv.ChainLength > 0)

C35_TimeoutAfterFullWindow == silence # -1 => silence > livTimeout

\* C38: no inbound frame can bring down a task of the session: whatever a
\* TileStateDeviceChain frame holds - any start index, any tile count, a tile
\* width or height of 0 - recvloop finishes the frame, and the high frequency
\* probe set built from the resulting state is computed without a fault.
C38_NoFrameFaults == ~panicked

\* both tasks of the session have returned
TasksExited(i) == pfPc = "exited" /\ loopPc[i] = "exited"

\* once both tasks have returned no request is sent and the device is not touched
C40_Quiet ==
    \A i \in ClosedSessions :
        TasksExited(i) =>
            /\ pfPc' = pfPc
            /\ probes' = probes
            /\ pfWake' = pfWake
            /\ applied'[i] = applied[i]
            /\ seen'[i] = seen[i]

\* C40: after a session is closed both of its tasks eventually return - run from
\* the wait of the handshake or from the refresh loop, recvloop even while frames
\* are queued in its inbox - and from then on the session sends no request and
\* changes no device state.
C40_ClosedTasksExit ==
    /\ \A i \in ClosedSessions : done[i] ~> TasksExited(i)
    /\ [][C40_Quiet]_vars

\* the session was closed while frames were queued, and recvloop has returned
\* without taking them; run has returned from the refresh loop
C40_Witness ==
    \E i \in ClosedSessions :
        /\ done[i]
        /\ TasksExited(i)
        /\ inbound[i] # <<>>

====
